---- MODULE Spec2Model ----
(***************************************************************************)
(* Model of the VRPTW tab of vrptw-workflow (src/app/tabs/vrptw_tab.py):   *)
(* the two solve entry points, the cost matrix they build, the routing     *)
(* model they hand to the search engine, the orchestration in on_run and   *)
(* the solved.csv store; of the clustering step that rewrites              *)
(* clustered.csv (src/app/tabs/cluster_tab.py); and of the geocoding cache *)
(* (src/app/geocoding/cache.py).                                           *)
(*                                                                         *)
(* Abstractions.  Coordinates are points on a line measured in miles, so   *)
(* hav_miles is the absolute difference of two points.  Hours are counted  *)
(* in twelfths (five minutes), so hours * 60 is twelfths * 5.  Python's     *)
(* None index is the integer NoneIdx.  A site id is the sequence of its    *)
(* characters, so that joining and splitting ids on commas is computed     *)
(* rather than assumed.  A cached address is the sequence of its words,   *)
(* each marked with whether a comma follows it.                            *)
(***************************************************************************)
EXTENDS Integers, Sequences, FiniteSets, TLC

\* ------------------------------------------------------------------ bounds
MaxSites == 2
MaxStops == 2      \* stops, over all routes, of a solution handed to _save_solution
MaxSaves == 2      \* _save_solution calls in one behaviour of the store
MaxPairs == 209    \* site pairs of the two-city instances whose objective is evaluated
MaxTicks == 1      \* seconds that pass on the clock of the geocoding cache
MaxList == 2       \* addresses in one clear_by_addresses call
MaxText == 2       \* characters of an argument of normalize_address
MaxRows == 2       \* rows of one addresses.csv
MaxRuns == 2       \* geocoding runs whose finished signal has not been handled yet
MaxQueue == 1      \* queued request_cancel calls that are told apart

\* ------------------------------------------------------- program constants
horizon == 480
FixedCost == 100000
MinSpeedMicro == 1000000   \* 1 / 1e-6: the divisor max(1e-6, speed_mph) when speed_mph <= 0

NoneIdx == -1              \* Python None for a column index
NoSvc == -1                \* an empty service_time_hours cell
BadPt == -1                \* a lat/lon cell that float() rejects

\* --------------------------------------------------------- input universes
Headers ==
  { <<"id", "address", "lat", "lon", "cluster_id">>,
    <<"id", "latitude", "longitude", "cluster_id", "service_time_hours">>,
    <<"lat", "lon", "id", "cluster_id", "service_time_hours">>,
    <<"cluster_id", "Lon", "Lat", "service_time_hours">>,
    <<"id", "address", "cluster_id">>,
    <<"id", "lat", "lon">> }

IdCells == {<<>>, <<"1">>, <<"a">>}
Points == {0, 10}
ClusterCells == {0, 1}
SvcCells == {NoSvc, 108}
Speeds == {0, 50}
DefaultServiceQ == {48}

States == {"TX", "CA"}
StoreState == "TX"
StoreIds == {<<"a">>, <<"a", ",", "b">>, <<" ", "b">>}
StoreSpeeds == {30, 50}

RowRec == [id : IdCells, pt : Points, cid : ClusterCells, svc : SvcCells]

\* the non-empty id cells of a file are pairwise distinct (Site.id is unique)
DistinctIds(rs) ==
  \A i, j \in DOMAIN rs : (i # j /\ rs[i].id # <<>>) => rs[i].id # rs[j].id

RowSeqs == UNION { {rs \in [1..n -> RowRec] : DistinctIds(rs)} : n \in 0..MaxSites }

\* ------------------------------------------------------------ pure helpers
Range(s) == {s[i] : i \in DOMAIN s}

Abs(x) == IF x < 0 THEN -x ELSE x

\* str.lower() on the column names that occur
Lower(s) ==
  CASE s = "Lat" -> "lat"
    [] s = "Lon" -> "lon"
    [] s = "ID" -> "id"
    [] OTHER -> s

\* str(i) for a row position
StrOfInt(i) ==
  CASE i = 0 -> <<"0">>
    [] i = 1 -> <<"1">>
    [] i = 2 -> <<"2">>
    [] i = 3 -> <<"3">>
    [] OTHER -> <<"9">>

\* colmap.get(name): 0-based index of the column, None when absent
ColGet(hdr, name) ==
  IF \E k \in DOMAIN hdr : Lower(hdr[k]) = name
  THEN (CHOOSE k \in DOMAIN hdr : Lower(hdr[k]) = name) - 1
  ELSE NoneIdx

HasColumn(hdr, names) == \E k \in DOMAIN hdr : Lower(hdr[k]) \in names

\* Python `a or b` on Optional[int]: None and 0 are both falsy
PyOr(a, b) == IF a # NoneIdx /\ a # 0 THEN a ELSE b

lat_idx(hdr) == PyOr(ColGet(hdr, "lat"), ColGet(hdr, "latitude"))
lon_idx(hdr) == PyOr(ColGet(hdr, "lon"), ColGet(hdr, "longitude"))
cid_idx(hdr) == ColGet(hdr, "cluster_id")
svc_idx(hdr) == ColGet(hdr, "service_time_hours")
id_idx(hdr) == ColGet(hdr, "id")

\* int(round(x)) for x = num / den, num >= 0, den > 0 (round half to even)
RoundDiv(num, den) ==
  LET q == num \div den
      r == num % den
  IN  IF 2 * r < den THEN q
      ELSE IF 2 * r > den THEN q + 1
      ELSE IF q % 2 = 0 THEN q ELSE q + 1

\* the filter that takes the first row of the reader for a second header line
FilterCluster_SkipFirst(rs, c) ==
  IF rs = <<>> THEN <<>> ELSE SelectSeq(Tail(rs), LAMBDA r : r.cid = c)

\* rows kept by _solve_single_cluster's filter, in file order
RECURSIVE FilterCluster(_, _)
FilterCluster(rs, c) ==
  IF rs = <<>> THEN <<>>
  ELSE IF Head(rs).cid = c THEN <<Head(rs)>> \o FilterCluster(Tail(rs), c)
       ELSE FilterCluster(Tail(rs), c)

\* ids[i]: the id cell, or the row position when the column or the cell is empty
ids_of(hdr, rs) ==
  [k \in DOMAIN rs |->
     IF id_idx(hdr) # NoneIdx /\ rs[k].id # <<>> THEN rs[k].id ELSE StrOfInt(k - 1)]

\* svc_min[i] = int(round(hours * 60))
svc_min_of(hdr, rs, dflt) ==
  [k \in DOMAIN rs |->
     (IF svc_idx(hdr) # NoneIdx /\ rs[k].svc # NoSvc THEN rs[k].svc ELSE dflt) * 5]

hav_miles(rs, i, j) == Abs(rs[j].pt - rs[i].pt)

\* travel_min with the speed clamped at 1 mph instead of 1e-6 mph
travel_min_ClampOne(rs, speed, i, j) ==
  IF i = j THEN 0
  ELSE IF speed >= 1 THEN RoundDiv(hav_miles(rs, i, j) * 60, speed)
       ELSE hav_miles(rs, i, j) * 60

travel_min(rs, speed, i, j) ==
  IF i = j THEN 0
  ELSE IF speed >= 1 THEN RoundDiv(hav_miles(rs, i, j) * 60, speed)
       ELSE hav_miles(rs, i, j) * 60 * MinSpeedMicro

\* time_matrix with the service time of the arrival site on the site-to-site edges
time_matrix_of_ServiceAtArrival(rs, svc, speed) ==
  [a \in 0..Len(rs) |-> [b \in 0..Len(rs) |->
     IF a = 0 THEN 0
     ELSE IF b = 0 THEN svc[a]
     ELSE travel_min(rs, speed, a, b) + svc[b]]]

\* time_matrix with the diagonal left at 0
time_matrix_of_ZeroDiagonal(rs, svc, speed) ==
  [a \in 0..Len(rs) |-> [b \in 0..Len(rs) |->
     IF a = 0 \/ a = b THEN 0
     ELSE IF b = 0 THEN svc[a]
     ELSE travel_min(rs, speed, a, b) + svc[a]]]

\* time_matrix, nodes 0..n (0 is the depot, site i is node i)
time_matrix_of(rs, svc, speed) ==
  [a \in 0..Len(rs) |-> [b \in 0..Len(rs) |->
     IF a = 0 THEN 0
     ELSE IF b = 0 THEN svc[a]
     ELSE travel_min(rs, speed, a, b) + svc[a]]]

\* ------------------------------------------------- the routing model (OR-Tools)
\* every ordered visit of a non-empty subset of the nodes S
RoutesOver(S) ==
  UNION { {f \in [1..Cardinality(T) -> T] : \A x, y \in DOMAIN f : x # y => f[x] # f[y]}
          : T \in (SUBSET S) \ {{}} }

\* every assignment of all nodes of S to non-empty vehicle routes, in vehicle order
\* (no disjunction is added, so every node is mandatory and has one successor)
RECURSIVE Assignments(_)
Assignments(S) ==
  IF S = {} THEN {<<>>}
  ELSE UNION { {<<r>> \o rest : rest \in Assignments(S \ Range(r))} : r \in RoutesOver(S) }

\* the "Time" dimension along one route: start cumul forced to 0, no slack,
\* cumul(next) = cumul + transit, every cumul (the end node's included) <= capacity
RECURSIVE CumulOk(_, _, _, _, _)
CumulOk(M, r, k, t, cap) ==
  /\ t >= 0
  /\ t <= cap
  /\ IF k = Len(r) THEN t + M[r[k]][0] <= cap
     ELSE CumulOk(M, r, k + 1, t + M[r[k]][r[k + 1]], cap)

\* the dimension without the bound on the cumul of the end node
RECURSIVE CumulOkOpen(_, _, _, _, _)
CumulOkOpen(M, r, k, t, cap) ==
  /\ t >= 0
  /\ t <= cap
  /\ IF k = Len(r) THEN TRUE
     ELSE CumulOkOpen(M, r, k + 1, t + M[r[k]][r[k + 1]], cap)

RouteFeasible_OpenEnd(M, r) == CumulOkOpen(M, r, 1, M[0][r[1]], horizon)

\* the dimension with a capacity one minute short of the horizon
RouteFeasible_StrictHorizon(M, r) == CumulOk(M, r, 1, M[0][r[1]], horizon - 1)

\* the dimension with a capacity of the whole day
RouteFeasible_DayHorizon(M, r) == CumulOk(M, r, 1, M[0][r[1]], 3 * horizon)

RouteFeasible(M, r) == CumulOk(M, r, 1, M[0][r[1]], horizon)

\* the assignments the routing model admits
Solutions(M, n) ==
  {sol \in Assignments(1..n) : \A k \in DOMAIN sol : RouteFeasible(M, sol[k])}

\* arc cost evaluator on the same callback plus the fixed cost of each used vehicle
RECURSIVE RouteTransit(_, _, _)
RouteTransit(M, r, k) ==
  IF k = Len(r) THEN M[r[k]][0]
  ELSE M[r[k]][r[k + 1]] + RouteTransit(M, r, k + 1)

\* the cost of the vehicles lo..hi, summed by halves
RECURSIVE ObjectiveOver(_, _, _, _)
ObjectiveOver(M, sol, lo, hi) ==
  IF lo > hi THEN 0
  ELSE IF lo = hi THEN FixedCost + M[0][sol[lo][1]] + RouteTransit(M, sol[lo], 1)
  ELSE LET mid == (lo + hi) \div 2
       IN  ObjectiveOver(M, sol, lo, mid) + ObjectiveOver(M, sol, mid + 1, hi)

\* vehicles that cost nothing to use
Objective_TransitOnly(M, sol) == ObjectiveOver(M, sol, 1, Len(sol)) - Len(sol) * FixedCost

\* a vehicle that costs as much as an hour of transit
Objective_HourFixedCost(M, sol) ==
  ObjectiveOver(M, sol, 1, Len(sol)) - Len(sol) * (FixedCost - horizon \div 8)

Objective(M, sol) == ObjectiveOver(M, sol, 1, Len(sol))

NoSolution == [found |-> FALSE, sol |-> <<>>]

\* the search that stops at any admitted assignment, whatever its cost
SolveWithParameters_AnyAdmitted(M, n) ==
  IF Solutions(M, n) = {} THEN {NoSolution}
  ELSE {[found |-> TRUE, sol |-> s] : s \in Solutions(M, n)}

\* routing.SolveWithParameters: no solution when the model admits none, else an
\* admitted assignment of least objective (on instances of this size the guided
\* local search, five seconds long, is taken to reach the minimum)
SolveWithParameters(M, n) ==
  LET admitted == Solutions(M, n)
      obj == [s \in admitted |-> Objective(M, s)]
  IN  IF admitted = {} THEN {NoSolution}
      ELSE {[found |-> TRUE, sol |-> s] :
              s \in {t \in admitted : \A u \in admitted : obj[t] <= obj[u]}}

\* the extraction loop: node indices back to site ids, empty vehicles omitted
ExtractRoutes(sol, ids) == [k \in DOMAIN sol |-> [p \in DOMAIN sol[k] |-> ids[sol[k][p]]]]

\* ------------------------------------------------------- the solve entry points
Raised(msg) ==
  [kind |-> "raised", error |-> msg, n |-> 0, built |-> FALSE, found |-> FALSE, rows |-> <<>>,
   ids |-> <<>>, svc_min |-> <<>>, time_matrix |-> <<>>, node_routes |-> <<>>, routes |-> <<>>]

ReturnedEarly ==
  [kind |-> "returned", error |-> "", n |-> 0, built |-> FALSE, found |-> FALSE, rows |-> <<>>,
   ids |-> <<>>, svc_min |-> <<>>, time_matrix |-> <<>>, node_routes |-> <<>>, routes |-> <<>>]

\* from `n = len(rows)` to the return statement, common to both entry points
SolveRows(hdr, rs, speed, dflt) ==
  IF Len(rs) = 0 THEN {ReturnedEarly}
  ELSE IF \E k \in DOMAIN rs : rs[k].pt = BadPt
  THEN {Raised("could not convert string to float")}
  ELSE LET ids == ids_of(hdr, rs)
           svc == svc_min_of(hdr, rs, dflt)
           M == time_matrix_of(rs, svc, speed)
       IN  { [kind |-> "returned", error |-> "", n |-> Len(rs), built |-> TRUE,
              found |-> s.found, rows |-> rs, ids |-> ids, svc_min |-> svc, time_matrix |-> M,
              node_routes |-> s.sol, routes |-> ExtractRoutes(s.sol, ids)]
             : s \in SolveWithParameters(M, Len(rs)) }

_solve_single_cluster(hdr, rs, c, speed, dflt) ==
  IF cid_idx(hdr) = NoneIdx THEN {Raised("cluster_id column not found")}
  ELSE IF lat_idx(hdr) = NoneIdx \/ lon_idx(hdr) = NoneIdx
       THEN {Raised("lat/lon (or latitude/longitude) columns not found")}
       ELSE SolveRows(hdr, FilterCluster(rs, c), speed, dflt)

_solve_state_wide(hdr, rs, speed, dflt) ==
  IF lat_idx(hdr) = NoneIdx \/ lon_idx(hdr) = NoneIdx
  THEN {Raised("lat/lon (or latitude/longitude) columns not found")}
  ELSE SolveRows(hdr, rs, speed, dflt)

\* ------------------------------------------------------- solved.csv store
\* A numeric cell of solved.csv: ok is FALSE when its text does not parse.
NumCell(v) == [ok |-> TRUE, v |-> v]
BadCell == [ok |-> FALSE, v |-> 0]

MissingFile == [exists |-> FALSE, readable |-> FALSE, rows |-> <<>>]

None == [kind |-> "none"]

\* ",".join(seq_ids)
RECURSIVE JoinComma(_)
JoinComma(seq_ids) ==
  IF seq_ids = <<>> THEN <<>>
  ELSE IF Len(seq_ids) = 1 THEN Head(seq_ids)
       ELSE Head(seq_ids) \o <<",">> \o JoinComma(Tail(seq_ids))

\* sequence.split(","): the pieces between commas, at least one piece
RECURSIVE SplitComma(_)
SplitComma(chars) ==
  IF \A k \in DOMAIN chars : chars[k] # "," THEN <<chars>>
  ELSE LET c == CHOOSE k \in DOMAIN chars :
                  chars[k] = "," /\ \A m \in 1..(k - 1) : chars[m] # ","
       IN  <<SubSeq(chars, 1, c - 1)>> \o SplitComma(SubSeq(chars, c + 1, Len(chars)))

\* s.strip()
RECURSIVE Strip(_)
Strip(chars) ==
  IF chars = <<>> THEN <<>>
  ELSE IF Head(chars) = " " THEN Strip(Tail(chars))
       ELSE IF chars[Len(chars)] = " " THEN Strip(SubSeq(chars, 1, Len(chars) - 1))
            ELSE chars

\* [s.strip() for s in sequence.split(",") if s.strip()]
RECURSIVE StripNonEmpty(_)
StripNonEmpty(pieces) ==
  IF pieces = <<>> THEN <<>>
  ELSE IF Strip(Head(pieces)) = <<>> THEN StripNonEmpty(Tail(pieces))
       ELSE <<Strip(Head(pieces))>> \o StripNonEmpty(Tail(pieces))

ParseSequence(chars) == StripNonEmpty(SplitComma(chars))

\* the record written for one route
SolvedRow(r, mode, speed, service_hours, solved_at) ==
  [state |-> r.state, cluster |-> r.cluster, vehicle |-> NumCell(r.vehicle),
   stops |-> NumCell(Len(r.seq_ids)), sequence |-> JoinComma(r.seq_ids), mode |-> mode,
   speed_mph |-> NumCell(speed), service_hours |-> NumCell(service_hours),
   solved_at |-> solved_at]

\* _save_solution: the file of the state is rewritten whole; nothing happens
\* without a workspace
_save_solution(fs, ws, state, all_rows, mode, speed, service_hours, solved_at) ==
  IF ws = "" THEN fs
  ELSE [fs EXCEPT ![state] =
          [exists |-> TRUE, readable |-> TRUE,
           rows |-> [k \in DOMAIN all_rows |->
                       SolvedRow(all_rows[k], mode, speed, service_hours, solved_at)]]]

\* the body of the reader loop over the rows from position k on; acc is the state
\* of the local variables; failed is set by the first int() or float() that raises
RECURSIVE ReadRows(_, _, _)
ReadRows(rows, k, acc) ==
  IF k > Len(rows) THEN acc
  ELSE LET row == rows[k]
           first == acc.all_rows = <<>>
       IN  IF ~row.vehicle.ok \/ ~row.stops.ok THEN [acc EXCEPT !.failed = TRUE]
           ELSE IF first /\ (~row.speed_mph.ok \/ ~row.service_hours.ok)
                THEN [acc EXCEPT !.failed = TRUE]
                ELSE ReadRows(rows, k + 1,
                       [failed |-> FALSE,
                        all_rows |-> Append(acc.all_rows,
                                      [state |-> row.state, cluster |-> row.cluster,
                                       vehicle |-> row.vehicle.v,
                                       seq_ids |-> ParseSequence(row.sequence)]),
                        mode |-> IF first THEN row.mode ELSE acc.mode,
                        speed_mph |-> IF first THEN row.speed_mph.v ELSE acc.speed_mph,
                        service_hours |-> IF first THEN row.service_hours.v
                                          ELSE acc.service_hours,
                        solved_at |-> IF first THEN row.solved_at ELSE acc.solved_at])

ReadStart ==
  [failed |-> FALSE, all_rows |-> <<>>, mode |-> "clusters", speed_mph |-> 50,
   service_hours |-> 48, solved_at |-> 0]

\* _load_solution with a try block that covers the open only
_load_solution_Uncaught(fs, ws, state) ==
  IF ws = "" THEN None
  ELSE IF ~fs[state].exists THEN None
  ELSE IF ~fs[state].readable THEN None
  ELSE LET acc == ReadRows(fs[state].rows, 1, ReadStart)
       IN  IF acc.failed THEN [kind |-> "raised"]
           ELSE IF acc.all_rows # <<>>
                THEN [kind |-> "solution", state |-> state, mode |-> acc.mode,
                      all_rows |-> acc.all_rows, speed_mph |-> acc.speed_mph,
                      service_hours |-> acc.service_hours, solved_at |-> acc.solved_at]
                ELSE None

\* _load_solution: None without workspace or file; the try block covers the open
\* and the whole loop, and its except clause logs and falls through to None
_load_solution(fs, ws, state) ==
  IF ws = "" THEN None
  ELSE IF ~fs[state].exists THEN None
  ELSE IF ~fs[state].readable THEN None
  ELSE LET acc == ReadRows(fs[state].rows, 1, ReadStart)
       IN  IF acc.failed THEN None
           ELSE IF acc.all_rows # <<>>
                THEN [kind |-> "solution", state |-> state, mode |-> acc.mode,
                      all_rows |-> acc.all_rows, speed_mph |-> acc.speed_mph,
                      service_hours |-> acc.service_hours, solved_at |-> acc.solved_at]
                ELSE None

\* ------------------------------------------------------------------- state
VARIABLES
  csv_header,         \* header line of clustered.csv
  csv_rows,           \* data rows of clustered.csv
  cluster_id,         \* cluster_id argument of _solve_single_cluster
  speed_mph,          \* speed_mph argument
  default_service_h,  \* default_service_h argument, in twelfths of an hour
  pc,                 \* "ready", or the entry point that has run
  result,             \* outcome of the call
  workspace,          \* self.workspace: "" is None
  clustered,          \* the states whose directory holds a clustered.csv
  files,              \* solved.csv of every state
  clock,              \* number of solutions written, the solved_at stamp
  op,                 \* the operation that ran last
  loaded,             \* return value of the last _load_solution call
  saved,              \* arguments of the last _save_solution call
  fresh,              \* solved.csv of StoreState is as the last call wrote it
  state_cur,          \* state_list.currentItem(): "" is no item
  cluster_combo,      \* userData of the items of cluster_combo
  combo_index,        \* cluster_combo.currentIndex(): -1 is no item
  ignore_clusters,    \* ignore_clusters.isChecked()
  run_btn,            \* run_btn.isEnabled()
  map_btn,            \* map_btn.isEnabled()
  results,            \* content of the results table
  last_solution,      \* self.last_solution
  log,                \* kinds of the lines appended to the log
  run,                \* progress of on_run: position, units left, rows and unit outcomes
  cache_table,        \* rows of the addresses table of nominatim.sqlite
  cache_now,          \* datetime('now')
  cache_op,           \* the last GeocodingCache call, its arguments and the table before it
  cache_ret,          \* what that call returned
  cache_file,         \* nominatim.sqlite exists
  cache_conn,         \* the connection each thread holds and the call it is making
  cache_last,         \* per address, the values of the last completed put no completed deletion followed
  worker,             \* the GeocodeWorker self.worker refers to: position in run and its locals
  geo_ui,             \* the geocode tab: workspace, selection, buttons, workers running
  geo_queue,          \* slot calls queued on the worker thread
  geo_out             \* geocoded.csv and geocode-errors.csv of the states

solveVars == <<csv_header, csv_rows, cluster_id, speed_mph, default_service_h, pc, result>>
storeVars == <<workspace, clustered, files, clock, op, loaded, saved, fresh>>
storeFrame == <<workspace, clustered, files, clock, loaded, saved, fresh>>
uiVars == <<state_cur, cluster_combo, combo_index, ignore_clusters, run_btn, map_btn, results, last_solution, log, run>>

cacheVars == <<cache_table, cache_now, cache_op, cache_ret>>

connVars == <<cache_file, cache_conn, cache_last>>
geoVars == <<worker, geo_ui, geo_queue, geo_out>>

vars == <<solveVars, storeVars, uiVars, cacheVars, connVars, geoVars>>

NoSave == [kind |-> "none"]
Idle == [pc |-> "idle", todo |-> <<>>, cluster_ids |-> <<>>, all_rows |-> <<>>, units |-> <<>>]
EmptyTable == [kind |-> "empty", rows |-> <<>>]
AllClusters == -1          \* userData None of the "All clusters" item

\* the tab after construction
InitStore ==
  /\ workspace = ""
  /\ clustered = {}
  /\ files = [st \in States |-> MissingFile]
  /\ clock = 0
  /\ op = "init"
  /\ loaded = None
  /\ saved = NoSave
  /\ fresh = FALSE

InitUi ==
  /\ state_cur = ""
  /\ cluster_combo = <<>>
  /\ combo_index = -1
  /\ ignore_clusters = TRUE
  /\ run_btn = FALSE
  /\ map_btn = FALSE
  /\ results = EmptyTable
  /\ last_solution = None
  /\ log = {}
  /\ run = Idle

\* the geocoding cache before its first call: no row in the table
NoCall == [name |-> "none", key |-> <<>>, keys |-> <<>>, before |-> {}]

InitCache ==
  /\ cache_table = {}
  /\ cache_now = 0
  /\ cache_op = NoCall
  /\ cache_ret = None

\* the threads that use the cache, none of them in a call
Threads == {"worker", "ui"}
NoConn == [pc |-> "idle"]

InitConn ==
  /\ cache_file = FALSE
  /\ cache_conn = [t \in Threads |-> NoConn]
  /\ cache_last = {}

\* the geocode tab after construction: no workspace, no worker
NoWorker == [pc |-> "none"]
NoFiles == [addresses |-> <<>>, geocoded |-> <<>>, errors |-> <<>>, written |-> FALSE]

InitGeoUi ==
  geo_ui = [workspace |-> "", current |-> "", geocode_btn |-> FALSE, geocode_all_btn |-> TRUE,
            cancel_btn |-> FALSE, clear_cache_btn |-> TRUE, inbox |-> <<>>, unhandled |-> 0,
            orphans |-> 0]

InitGeo ==
  /\ worker = NoWorker
  /\ InitGeoUi
  /\ geo_queue = <<>>
  /\ geo_out = [st \in States |-> NoFiles]

\* --------------------------------------- direct calls of the two entry points
InitSolve ==
  /\ csv_header \in Headers
  /\ csv_rows \in RowSeqs
  /\ cluster_id \in ClusterCells
  /\ speed_mph \in Speeds
  /\ default_service_h \in DefaultServiceQ
  /\ pc = "ready"
  /\ result = ReturnedEarly
  /\ InitStore
  /\ InitUi
  /\ InitCache
  /\ InitConn
  /\ InitGeo

CallSolveSingleCluster ==
  /\ pc = "ready"
  /\ \E o \in _solve_single_cluster(csv_header, csv_rows, cluster_id, speed_mph, default_service_h) :
       result' = o
  /\ pc' = "single"
  /\ UNCHANGED <<csv_header, csv_rows, cluster_id, speed_mph, default_service_h>>
  /\ UNCHANGED <<storeVars, uiVars>>
  /\ UNCHANGED <<cacheVars, connVars, geoVars>>

CallSolveStateWide ==
  /\ pc = "ready"
  /\ \E o \in _solve_state_wide(csv_header, csv_rows, speed_mph, default_service_h) :
       result' = o
  /\ pc' = "statewide"
  /\ UNCHANGED <<csv_header, csv_rows, cluster_id, speed_mph, default_service_h>>
  /\ UNCHANGED <<storeVars, uiVars>>
  /\ UNCHANGED <<cacheVars, connVars, geoVars>>

NextSolve == CallSolveSingleCluster \/ CallSolveStateWide

SpecSolve == InitSolve /\ [][NextSolve]_vars

\* ------------------------------------------- the boundary scenarios of the solve
\* site lists of one to three sites of one cluster, co-located or 500 miles apart:
\* a single site with a service time of 60, 100, 480 or 485 minutes, several
\* sites with service times of 60 or 100 minutes
ScenarioPoints == {0, 500}
ScenarioSvc == {12, 20, 96, 97}
ScenarioSvcShort == {12, 20}
ScenarioIds == << <<"a">>, <<"1">>, <<"b">> >>
ScenarioSites == Len(ScenarioIds)

ScenarioRowSeqs ==
  UNION { {rs \in [1..n -> [id : Range(ScenarioIds), pt : ScenarioPoints, cid : {c},
                             svc : ScenarioSvc]] :
             \A k \in DOMAIN rs :
                (rs[k].id = ScenarioIds[k]) /\ (n > 1 => rs[k].svc \in ScenarioSvcShort)}
          : n \in 1..ScenarioSites, c \in ClusterCells }

\* a speed of 0 multiplies the miles by a million: kept to co-located sites
InitScenario ==
  /\ csv_header \in Headers
  /\ csv_rows \in ScenarioRowSeqs
  /\ cluster_id \in ClusterCells
  /\ speed_mph \in Speeds
  /\ speed_mph >= 1 \/ \A k \in DOMAIN csv_rows : csv_rows[k].pt = csv_rows[1].pt
  /\ default_service_h \in DefaultServiceQ
  /\ pc = "ready"
  /\ result = ReturnedEarly
  /\ InitStore
  /\ InitUi
  /\ InitCache
  /\ InitConn
  /\ InitGeo

NextScenario == CallSolveSingleCluster \/ CallSolveStateWide

SpecScenario == InitScenario /\ [][NextScenario]_vars

\* ----------------------------------------------- the objective of an assignment
\* instances whose assignments are priced: the small site lists with every
\* assignment the model admits, and two cities 480 minutes apart (400 miles at
\* 50 mph) with m sites each and no service time, with two assignments
CityGap == 8 * 50          \* miles between the two cities: eight hours at 50 mph
FleetHeader == <<"id", "lat", "lon", "cluster_id", "service_time_hours">>

TwoCity(m) ==
  [k \in 1..(2 * m) |-> [id |-> <<>>, pt |-> IF k <= m THEN 0 ELSE CityGap, cid |-> 0, svc |-> 0]]

SmallLists ==
  UNION { [1..n -> [id : {<<>>}, pt : Points, cid : {0}, svc : SvcCells]] : n \in 1..MaxSites }

\* one vehicle per pair of sites, one of each city: m vehicles
Paired(m) == [k \in 1..m |-> <<k, m + k>>]

\* the nodes first..first+count-1 two by two, the last one alone when count is odd
InPairs(first, count) ==
  [j \in 1..((count + 1) \div 2) |->
     IF 2 * j <= count THEN <<first + 2 * j - 2, first + 2 * j - 1>> ELSE <<first + 2 * j - 2>>]

\* no vehicle leaves its city: the first city two by two, the second city with one
\* or two sites alone and the rest two by two, m + 1 vehicles in all
ByCity(m) ==
  LET alone == IF m % 2 = 0 THEN 2 ELSE 1
  IN  InPairs(1, m) \o [j \in 1..alone |-> <<m + j>>] \o InPairs(m + alone + 1, m - alone)

FleetMatrix == time_matrix_of(csv_rows, svc_min_of(csv_header, csv_rows, default_service_h), speed_mph)

\* the admitted assignments that are priced for the instance in csv_rows
FleetCandidates ==
  IF Len(csv_rows) <= MaxSites THEN Solutions(FleetMatrix, Len(csv_rows))
  ELSE LET m == Len(csv_rows) \div 2
       IN  {c \in {Paired(m), ByCity(m)} :
              \A k \in DOMAIN c : RouteFeasible(FleetMatrix, c[k])}

InitFleet ==
  /\ csv_header = FleetHeader
  /\ csv_rows \in SmallLists \cup {TwoCity(m) : m \in 1..MaxPairs}
  /\ cluster_id = 0
  /\ speed_mph = 50
  /\ default_service_h \in DefaultServiceQ
  /\ pc = "ready"
  /\ result = ReturnedEarly
  /\ InitStore
  /\ InitUi
  /\ InitCache
  /\ InitConn
  /\ InitGeo

\* the routing model prices one admitted assignment
PriceAssignment ==
  /\ pc = "ready"
  /\ \E c \in FleetCandidates :
       result' = [kind |-> "priced", node_routes |-> c, vehicles |-> Len(c),
                  objective |-> Objective(FleetMatrix, c)]
  /\ pc' = "priced"
  /\ UNCHANGED <<csv_header, csv_rows, cluster_id, speed_mph, default_service_h>>
  /\ UNCHANGED <<storeVars, uiVars>>
  /\ UNCHANGED <<cacheVars, connVars, geoVars>>

NextFleet == PriceAssignment

SpecFleet == InitFleet /\ [][NextFleet]_vars

\* ------------------------------------------------------------ tab handlers
\* a finite set of integers in increasing order
RECURSIVE Sorted(_)
Sorted(S) ==
  IF S = {} THEN <<>>
  ELSE LET m == CHOOSE x \in S : \A y \in S : x <= y
       IN  <<m>> \o Sorted(S \ {m})

\* _read_cluster_counts: the cluster ids that occur (no column, no cluster)
_read_cluster_counts(hdr, rs) ==
  IF cid_idx(hdr) = NoneIdx THEN {}
  ELSE {rs[k].cid : k \in DOMAIN rs}

\* the (cluster_label, seq_ids) pairs kept in last_solution["routes"]
RoutePairs(all_rows) == [k \in DOMAIN all_rows |-> <<all_rows[k].cluster, all_rows[k].seq_ids>>]

\* the log line of _load_solution: "Loaded solution" or "Failed to load solution"
LoadLog(fs, ws, state) ==
  IF ws = "" \/ ~fs[state].exists THEN {}
  ELSE IF _load_solution(fs, ws, state).kind = "solution" THEN {"loaded"}
       ELSE IF ~fs[state].readable \/ ReadRows(fs[state].rows, 1, ReadStart).failed
            THEN {"load_failed"}
            ELSE {}

\* on_state_selected(state_code), with _display_loaded_solution
OnStateSelected(st) ==
  /\ run.pc = "idle"
  /\ op' = "select"
  /\ state_cur' = st
  /\ IF workspace = "" \/ st = ""
     THEN /\ cluster_combo' = <<>>
          /\ combo_index' = -1
          /\ run_btn' = FALSE
          /\ results' = EmptyTable
          /\ UNCHANGED <<loaded, last_solution, map_btn, log>>
     ELSE IF st \notin clustered
     THEN /\ cluster_combo' = <<>>
          /\ combo_index' = -1
          /\ run_btn' = FALSE
          /\ results' = EmptyTable
          /\ log' = log \cup {"no_clustered"}
          /\ UNCHANGED <<loaded, last_solution, map_btn>>
     ELSE LET counts == _read_cluster_counts(csv_header, csv_rows)
              ld == _load_solution(files, workspace, st)
          IN  /\ cluster_combo' = IF counts # {} THEN <<AllClusters>> \o Sorted(counts) ELSE <<>>
              /\ combo_index' = IF counts # {} THEN 0 ELSE -1
              /\ run_btn' = (counts # {})
              /\ loaded' = ld
              /\ log' = log \cup LoadLog(files, workspace, st)
                            \cup (IF cid_idx(csv_header) = NoneIdx THEN {"no_cluster_column"} ELSE {})
                            \cup (IF ld.kind = "solution" THEN {"displayed"} ELSE {})
              /\ IF ld.kind = "solution"
                 THEN /\ results' = [kind |-> "routes", rows |-> ld.all_rows]
                      /\ last_solution' = [kind |-> "solution", state |-> ld.state,
                                           mode |-> ld.mode, routes |-> RoutePairs(ld.all_rows)]
                      /\ map_btn' = TRUE
                 ELSE /\ results' = EmptyTable
                      /\ UNCHANGED <<last_solution, map_btn>>
  /\ UNCHANGED <<solveVars, workspace, clustered, files, clock, saved, fresh, ignore_clusters, run>>
  /\ UNCHANGED <<cacheVars, connVars, geoVars>>

\* --------------------------------------------- the store, written then read
\* the routes obtained by cutting the visit order flat after the positions in cuts
RECURSIVE SplitAt(_, _, _)
SplitAt(flat, start, cuts) ==
  IF start > Len(flat) THEN <<>>
  ELSE LET ends == {c \in cuts : c >= start} \cup {Len(flat)}
           e == CHOOSE c \in ends : \A d \in ends : c <= d
       IN  <<SubSeq(flat, start, e)>> \o SplitAt(flat, e + 1, cuts)

\* every non-empty list of non-empty routes with at most MaxStops stops in all
RouteLists ==
  UNION { UNION { {SplitAt(flat, 1, cuts) : cuts \in SUBSET (1..(t - 1))}
                  : flat \in [1..t -> StoreIds] }
          : t \in 1..MaxStops }

SaveRows(mode) ==
  UNION { { [k \in DOMAIN rl |-> [state |-> StoreState, cluster |-> lbl,
                                  vehicle |-> k - 1, seq_ids |-> rl[k]]]
            : rl \in RouteLists }
          : lbl \in (IF mode = "statewide" THEN {"ALL"} ELSE {"0", "1"}) }

\* what can happen to a written solved.csv behind the program's back
Damaged(f) ==
  {MissingFile, [f EXCEPT !.readable = FALSE], [f EXCEPT !.rows = <<>>]}
  \cup {[f EXCEPT !.rows[k].vehicle = BadCell] : k \in DOMAIN f.rows}
  \cup {[f EXCEPT !.rows[k].stops = BadCell] : k \in DOMAIN f.rows}
  \cup {[f EXCEPT !.rows[k].speed_mph = BadCell] : k \in DOMAIN f.rows}
  \cup {[f EXCEPT !.rows[k].service_hours = BadCell] : k \in DOMAIN f.rows}

\* the solved.csv that an earlier session left for a region other than StoreState
EarlierSolved(st) ==
  _save_solution([x \in States |-> MissingFile], "ws", st,
                 <<[state |-> st, cluster |-> "ALL", vehicle |-> 0, seq_ids |-> << <<"a">> >>]>>,
                 "statewide", 50, 48, 0)[st]

InitStoreRun ==
  /\ csv_header = <<"id", "address", "lat", "lon", "cluster_id">>
  /\ csv_rows = <<[id |-> <<"a">>, pt |-> 0, cid |-> 0, svc |-> NoSvc]>>
  /\ cluster_id = 0
  /\ speed_mph = 50
  /\ default_service_h = 48
  /\ pc = "ready"
  /\ result = ReturnedEarly
  /\ workspace \in {"", "ws"}
  /\ clustered \in {{}, {StoreState}}
  /\ files = [st \in States |-> IF st = StoreState \/ workspace = "" THEN MissingFile
                                  ELSE EarlierSolved(st)]
  /\ clock = 0
  /\ op = "init"
  /\ loaded = None
  /\ saved = NoSave
  /\ fresh = FALSE
  /\ InitUi
  /\ InitCache
  /\ InitConn
  /\ InitGeo

StoreSave ==
  /\ op \in {"init", "save"}
  /\ clock < MaxSaves
  /\ \E mode \in {"statewide", "clusters"}, speed \in StoreSpeeds, service_hours \in DefaultServiceQ :
       \E all_rows \in SaveRows(mode) :
         /\ files' = _save_solution(files, workspace, StoreState, all_rows, mode, speed,
                                    service_hours, clock + 1)
         /\ saved' = [kind |-> "saved", state |-> StoreState, all_rows |-> all_rows,
                      mode |-> mode, speed_mph |-> speed, service_hours |-> service_hours]
  /\ clock' = clock + 1
  /\ fresh' = (workspace # "")
  /\ op' = "save"
  /\ log' = log \cup (IF workspace # "" THEN {"saved"} ELSE {})
  /\ UNCHANGED <<solveVars, workspace, clustered, loaded>>
  /\ UNCHANGED <<state_cur, cluster_combo, combo_index, ignore_clusters, run_btn, map_btn,
                 results, last_solution, run>>
  /\ UNCHANGED <<cacheVars, connVars, geoVars>>

StoreDamage ==
  /\ op = "save"
  /\ files[StoreState].exists
  /\ \E f \in Damaged(files[StoreState]) : files' = [files EXCEPT ![StoreState] = f]
  /\ fresh' = FALSE
  /\ op' = "damage"
  /\ UNCHANGED <<solveVars, workspace, clustered, clock, loaded, saved, uiVars>>
  /\ UNCHANGED <<cacheVars, connVars, geoVars>>

StoreLoad ==
  /\ op \in {"init", "save", "damage"}
  /\ \E st \in States :
       /\ loaded' = _load_solution(files, workspace, st)
       /\ log' = log \cup LoadLog(files, workspace, st)
       /\ state_cur' = st
  /\ op' = "load"
  /\ UNCHANGED <<solveVars, workspace, clustered, files, clock, saved, fresh>>
  /\ UNCHANGED <<cluster_combo, combo_index, ignore_clusters, run_btn, map_btn,
                 results, last_solution, run>>
  /\ UNCHANGED <<cacheVars, connVars, geoVars>>

StoreSelect ==
  /\ op \in {"init", "save", "damage"}
  /\ \E st \in States : OnStateSelected(st)

NextStore == StoreSave \/ StoreDamage \/ StoreLoad \/ StoreSelect

SpecStore == InitStoreRun /\ [][NextStore]_vars

\* ---------------------------------------------------------------- on_run
\* str(cid) as a cluster label
LabelOf(cid) ==
  CASE cid = 0 -> "0"
    [] cid = 1 -> "1"
    [] OTHER -> "9"

\* cluster_combo.currentData(): None without a current item
currentData == IF combo_index < 0 THEN AllClusters ELSE cluster_combo[combo_index + 1]

\* the rows on_run appends for the routes of one unit
UnitRows(state, label, routes) ==
  [k \in DOMAIN routes |-> [state |-> state, cluster |-> label, vehicle |-> k - 1,
                            seq_ids |-> routes[k]]]

\* on_run up to the choice of the units to solve; the early returns end the handler
OnRunBegin ==
  /\ run.pc = "idle"
  /\ run_btn
  /\ clock < MaxSaves
  /\ op' = "run"
  /\ IF state_cur = "" \/ (~ignore_clusters /\ currentData = AllClusters /\ combo_index < 0)
     THEN UNCHANGED <<results, log, run>>
     ELSE IF workspace = "" \/ state_cur \notin clustered
     THEN /\ log' = log \cup {"missing_clustered"}
          /\ UNCHANGED <<results, run>>
     ELSE LET cluster_ids ==
                IF ignore_clusters THEN <<>>
                ELSE IF currentData = AllClusters
                     THEN Sorted(_read_cluster_counts(csv_header, csv_rows))
                     ELSE <<currentData>>
          IN  IF ~ignore_clusters /\ cluster_ids = <<>>
              THEN /\ log' = log \cup {"no_clusters"}
                   /\ results' = [kind |-> "no_clusters", rows |-> <<>>]
                   /\ UNCHANGED run
              ELSE /\ results' = EmptyTable
                   /\ run' = [pc |-> "solving",
                              todo |-> IF ignore_clusters THEN <<AllClusters>> ELSE cluster_ids,
                              cluster_ids |-> cluster_ids, all_rows |-> <<>>, units |-> <<>>]
                   /\ UNCHANGED log
  /\ UNCHANGED <<csv_header, csv_rows, cluster_id, speed_mph, default_service_h, pc, result>>
  /\ UNCHANGED <<storeFrame, state_cur, cluster_combo, combo_index, ignore_clusters,
                 run_btn, map_btn, last_solution>>
  /\ UNCHANGED <<cacheVars, connVars, geoVars>>

\* the loop with the try block around the whole loop: a raised unit ends the loop
TodoAfter_AbortOnFailure(todo, o) == IF o.kind = "raised" THEN <<>> ELSE Tail(todo)

\* the units left after one unit: `continue` after an exception, the next
\* iteration otherwise
TodoAfter(todo, o) == Tail(todo)

\* one unit of the run: the state-wide solve, or the solve of the next cluster;
\* an exception is logged and the unit contributes no row
OnRunSolveUnit ==
  /\ run.pc = "solving"
  /\ run.todo # <<>>
  /\ LET unit == Head(run.todo)
         outcomes == IF unit = AllClusters
                     THEN _solve_state_wide(csv_header, csv_rows, speed_mph, default_service_h)
                     ELSE _solve_single_cluster(csv_header, csv_rows, unit, speed_mph,
                                                default_service_h)
         label == IF unit = AllClusters THEN "ALL" ELSE LabelOf(unit)
     IN  \E o \in outcomes :
           /\ result' = o
           /\ cluster_id' = IF unit = AllClusters THEN cluster_id ELSE unit
           /\ pc' = IF unit = AllClusters THEN "statewide" ELSE "single"
           /\ log' = log \cup (IF o.kind = "raised" THEN {"solver_failed"} ELSE {})
                         \cup (IF o.built /\ unit # AllClusters THEN {"cluster_diagnostics"} ELSE {})
           /\ run' = [run EXCEPT
                        !.todo = TodoAfter(run.todo, o),
                        !.all_rows = run.all_rows \o UnitRows(state_cur, label, o.routes),
                        !.units = Append(run.units,
                                    [unit |-> unit, kind |-> o.kind, n |-> o.n,
                                     built |-> o.built, found |-> o.found,
                                     routes |-> o.routes])]
  /\ UNCHANGED <<csv_header, csv_rows, speed_mph, default_service_h>>
  /\ UNCHANGED <<storeVars, state_cur, cluster_combo, combo_index, ignore_clusters,
                 run_btn, map_btn, results, last_solution>>
  /\ UNCHANGED <<cacheVars, connVars, geoVars>>

\* the end of on_run: the results table, last_solution, the map button and the save
OnRunFinish ==
  /\ run.pc = "solving"
  /\ run.todo = <<>>
  /\ LET mode == IF ignore_clusters THEN "statewide" ELSE "clusters"
     IN  IF run.all_rows # <<>>
         THEN /\ results' = [kind |-> "routes", rows |-> run.all_rows]
              /\ last_solution' = [kind |-> "solution", state |-> state_cur, mode |-> mode,
                                   routes |-> RoutePairs(run.all_rows)]
              /\ map_btn' = TRUE
              /\ files' = _save_solution(files, workspace, state_cur, run.all_rows, mode,
                                         speed_mph, default_service_h, clock + 1)
              /\ saved' = [kind |-> "saved", state |-> state_cur, all_rows |-> run.all_rows,
                           mode |-> mode, speed_mph |-> speed_mph,
                           service_hours |-> default_service_h]
              /\ fresh' = (state_cur = StoreState)
              /\ clock' = clock + 1
              /\ log' = log \cup {"computed", "saved"}
         ELSE /\ results' = [kind |-> "no_feasible", rows |-> <<>>]
              /\ last_solution' = None
              /\ map_btn' = FALSE
              /\ log' = log \cup {"no_feasible"}
              /\ UNCHANGED <<files, saved, fresh, clock>>
  /\ run' = [run EXCEPT !.pc = "idle"]
  /\ UNCHANGED <<solveVars, workspace, clustered, op, loaded>>
  /\ UNCHANGED <<state_cur, cluster_combo, combo_index, ignore_clusters, run_btn>>
  /\ UNCHANGED <<cacheVars, connVars, geoVars>>

\* the user ticks or unticks "Ignore clusters"
ToggleIgnoreClusters ==
  /\ run.pc = "idle"
  /\ ignore_clusters' = ~ignore_clusters
  /\ UNCHANGED <<solveVars, storeVars, state_cur, cluster_combo, combo_index, run_btn,
                 map_btn, results, last_solution, log, run>>
  /\ UNCHANGED <<cacheVars, connVars, geoVars>>

\* the user picks an item of the cluster combo (_on_cluster_changed does nothing)
SelectCluster ==
  /\ run.pc = "idle"
  /\ \E i \in 0..(Len(cluster_combo) - 1) :
       /\ i # combo_index
       /\ combo_index' = i
  /\ UNCHANGED <<solveVars, storeVars, state_cur, cluster_combo, ignore_clusters, run_btn,
                 map_btn, results, last_solution, log, run>>
  /\ UNCHANGED <<cacheVars, connVars, geoVars>>

SelectState == \E st \in States : OnStateSelected(st)

\* the cluster counts the clustering tab is asked for
ClusterCounts == {1, 2}

\* the clustering tab clusters the state again and rewrites clustered.csv: the same
\* sites with the labels 0..k_eff-1 of k_eff non-empty clusters, equal points in
\* one cluster; nothing is written when a coordinate column or value is missing
_cluster_state ==
  /\ run.pc = "idle"
  /\ workspace # ""
  /\ csv_rows # <<>>
  /\ HasColumn(csv_header, {"lat", "latitude"}) /\ HasColumn(csv_header, {"lon", "longitude"})
  /\ \A i \in DOMAIN csv_rows : csv_rows[i].pt # BadPt
  /\ \E k \in ClusterCounts :
       LET n_unique == Cardinality({csv_rows[i].pt : i \in DOMAIN csv_rows})
           least == IF Len(csv_rows) < n_unique THEN Len(csv_rows) ELSE n_unique
           k_eff == IF k < least THEN k ELSE least
       IN  \E labels \in [DOMAIN csv_rows -> 0..(k_eff - 1)] :
             /\ Range(labels) = 0..(k_eff - 1)
             /\ \A i, j \in DOMAIN csv_rows : csv_rows[i].pt = csv_rows[j].pt => labels[i] = labels[j]
             /\ csv_rows' = [i \in DOMAIN csv_rows |-> [csv_rows[i] EXCEPT !.cid = labels[i]]]
  /\ csv_header' = IF HasColumn(csv_header, {"cluster_id"}) THEN csv_header
                   ELSE Append(csv_header, "cluster_id")
  /\ UNCHANGED <<cluster_id, speed_mph, default_service_h, pc, result>>
  /\ UNCHANGED <<storeVars, uiVars>>
  /\ UNCHANGED <<cacheVars, connVars, geoVars>>

\* the clustered.csv files of a run: a header with every column, one without
\* coordinates and one without cluster ids; no site, one site "a", or the sites
\* "a" and "1"; a coordinate cell may be one that float() rejects
RunHeaders ==
  { <<"id", "lat", "lon", "cluster_id", "service_time_hours">>,
    <<"id", "address", "cluster_id">>,
    <<"id", "lat", "lon">> }
RunRow(id, pts, svcs) == [id : {id}, pt : pts \cup {BadPt}, cid : ClusterCells, svc : svcs]
RunRowSeqs ==
  {<<>>} \cup {<<a>> : a \in RunRow(<<"a">>, Points, SvcCells)}
         \cup {<<a, b>> : a \in RunRow(<<"a">>, Points, SvcCells),
                           b \in RunRow(<<"1">>, {0}, {NoSvc})}
RunSpeeds == {50}

InitRun ==
  /\ csv_header \in RunHeaders
  /\ csv_rows \in RunRowSeqs
  /\ cluster_id = 0
  /\ speed_mph \in RunSpeeds
  /\ default_service_h \in DefaultServiceQ
  /\ pc = "ready"
  /\ result = ReturnedEarly
  /\ workspace = "ws"
  /\ clustered = {StoreState}
  /\ files = [st \in States |-> MissingFile]
  /\ clock = 0
  /\ op = "init"
  /\ loaded = None
  /\ saved = NoSave
  /\ fresh = FALSE
  /\ InitUi
  /\ InitCache
  /\ InitConn
  /\ InitGeo

NextRun ==
  \/ SelectState
  \/ ToggleIgnoreClusters
  \/ SelectCluster
  \/ OnRunBegin
  \/ OnRunSolveUnit
  \/ OnRunFinish
  \/ _cluster_state

SpecRun == InitRun /\ [][NextRun]_vars

\* ------------------------------------------------------ the geocoding cache
\* A text is the sequence of its words, separated by single spaces; comma says
\* that a comma follows the word.
SqlNull == -1000           \* NULL in latitude and longitude: a failed geocoding attempt

CacheAddrs ==
  { [address |-> <<"123", "Main", "St">>, city |-> <<"Springfield">>, state |-> "IL", zip5 |-> "62701"],
    [address |-> <<"789", "Pine", "Rd">>, city |-> <<"La", "Jolla">>, state |-> "CA", zip5 |-> "92037"],
    [address |-> <<"1", "Canal", "St">>, city |-> <<"New", "Orleans">>, state |-> "LA", zip5 |-> "70112"] }

StateCodes == {"IL", "il", "CA", "LA", "la"}

Payloads ==
  { [lat |-> 39, lon |-> -89, display_name |-> "Springfield, IL", source |-> "nominatim"],
    [lat |-> SqlNull, lon |-> SqlNull, display_name |-> "not found", source |-> "none"] }

\* the words of one part, the last one followed by the comma of ", ".join
WithComma(part) == [k \in DOMAIN part |-> [w |-> part[k], comma |-> (k = Len(part))]]

RECURSIVE JoinParts(_)
JoinParts(parts) ==
  IF Len(parts) = 1 THEN [k \in DOMAIN parts[1] |-> [w |-> parts[1][k], comma |-> FALSE]]
  ELSE WithComma(Head(parts)) \o JoinParts(Tail(parts))

\* normalize_address: the non-empty parts address, city, "state zip5" and "USA"
\* joined with ", " (the part "state zip5" holds a space and is never empty)
normalize_address(address, city, state, zip5) ==
  JoinParts(SelectSeq(<<address, city, <<state, zip5>>, <<"USA">>>>, LAMBDA p : p # <<>>))

KeyOf(a) == normalize_address(a.address, a.city, a.state, a.zip5)
Keys == {KeyOf(a) : a \in CacheAddrs}
AddrOf(key) == CHOOSE a \in CacheAddrs : KeyOf(a) = key

\* str.upper() on a state code
Upper(w) ==
  CASE w = "il" -> "IL"
    [] w = "la" -> "LA"
    [] w = "La" -> "LA"
    [] OTHER -> w

\* SQLite LIKE compares ASCII letters without regard to case
LikeFold(w) == Upper(w)

\* text LIKE '%, CODE %': ", " before the word CODE and a space after it
Like(text, code) ==
  \E i \in 2..(Len(text) - 1) :
     /\ text[i - 1].comma
     /\ ~text[i].comma
     /\ LikeFold(text[i].w) = LikeFold(code)

Select(table, key) == {r \in table : r.normalized_address = key}

\* get: the row of the address as a dict, or None
get(table, key) ==
  IF Select(table, key) = {} THEN None
  ELSE LET row == CHOOSE r \in Select(table, key) : TRUE
       IN  [kind |-> "row", lat |-> row.latitude, lon |-> row.longitude,
            display_name |-> row.display_name, source |-> row.source,
            updated_at |-> row.updated_at]

NewRow(key, p, now) ==
  [normalized_address |-> key, latitude |-> p.lat, longitude |-> p.lon,
   display_name |-> p.display_name, source |-> p.source, updated_at |-> now]

\* put with INSERT OR IGNORE: the row of an address already cached is kept
put_InsertOrIgnore(table, key, p, now) ==
  IF Select(table, key) # {} THEN table ELSE table \cup {NewRow(key, p, now)}

\* put: INSERT OR REPLACE on the UNIQUE column normalized_address
put(table, key, p, now) == (table \ Select(table, key)) \cup {NewRow(key, p, now)}

\* clear_by_address: the table left and the value returned (rowcount > 0)
clear_by_address(table, key) ==
  [table |-> table \ Select(table, key), ret |-> (Select(table, key) # {})]

\* clear_by_addresses: 0 for an empty list, else DELETE ... IN (...) and rowcount
clear_by_addresses(table, keys) ==
  IF keys = <<>> THEN [table |-> table, ret |-> 0]
  ELSE LET hit == {r \in table : r.normalized_address \in Range(keys)}
       IN  [table |-> table \ hit, ret |-> Cardinality(hit)]

\* clear_by_state: DELETE ... WHERE normalized_address LIKE '%, CODE %' and rowcount
clear_by_state(table, state_code) ==
  LET hit == {r \in table : Like(r.normalized_address, Upper(state_code))}
  IN  [table |-> table \ hit, ret |-> Cardinality(hit)]

KeyLists == UNION { [1..n -> Keys] : n \in 0..MaxList }

Call(name, key, keys, payload) ==
  [name |-> name, key |-> key, keys |-> keys, payload |-> payload, before |-> cache_table]

CachePut ==
  /\ \E key \in Keys, p \in Payloads :
       /\ cache_table' = put(cache_table, key, p, cache_now)
       /\ cache_op' = Call("put", key, <<>>, p)
  /\ cache_ret' = None
  /\ UNCHANGED <<cache_now, solveVars, storeVars, uiVars, connVars, geoVars>>

CacheGet ==
  /\ \E key \in Keys :
       /\ cache_ret' = get(cache_table, key)
       /\ cache_op' = Call("get", key, <<>>, None)
  /\ UNCHANGED <<cache_table, cache_now, solveVars, storeVars, uiVars, connVars, geoVars>>

CacheClearByAddress ==
  /\ \E key \in Keys :
       /\ cache_table' = clear_by_address(cache_table, key).table
       /\ cache_ret' = clear_by_address(cache_table, key).ret
       /\ cache_op' = Call("clear_by_address", key, <<>>, None)
  /\ UNCHANGED <<cache_now, solveVars, storeVars, uiVars, connVars, geoVars>>

CacheClearByAddresses ==
  /\ \E keys \in KeyLists :
       /\ cache_table' = clear_by_addresses(cache_table, keys).table
       /\ cache_ret' = clear_by_addresses(cache_table, keys).ret
       /\ cache_op' = Call("clear_by_addresses", <<>>, keys, None)
  /\ UNCHANGED <<cache_now, solveVars, storeVars, uiVars, connVars, geoVars>>

CacheClearByState ==
  /\ \E code \in StateCodes :
       /\ cache_table' = clear_by_state(cache_table, code).table
       /\ cache_ret' = clear_by_state(cache_table, code).ret
       /\ cache_op' = Call("clear_by_state", code, <<>>, None)
  /\ UNCHANGED <<cache_now, solveVars, storeVars, uiVars, connVars, geoVars>>

\* a second passes
CacheTick ==
  /\ cache_now < MaxTicks
  /\ cache_now' = cache_now + 1
  /\ UNCHANGED <<cache_table, cache_op, cache_ret, solveVars, storeVars, uiVars, connVars, geoVars>>

InitCacheRun ==
  /\ csv_header = FleetHeader
  /\ csv_rows = <<>>
  /\ cluster_id = 0
  /\ speed_mph = 50
  /\ default_service_h = 48
  /\ pc = "ready"
  /\ result = ReturnedEarly
  /\ InitStore
  /\ InitUi
  /\ InitCache
  /\ InitConn
  /\ InitGeo

NextCache ==
  \/ CachePut
  \/ CacheGet
  \/ CacheClearByAddress
  \/ CacheClearByAddresses
  \/ CacheClearByState
  \/ CacheTick

SpecCache == InitCacheRun /\ [][NextCache]_vars

\* ------------------------------------------------------- the geocode worker
\* A row of addresses.csv: address and city are word sequences (empty when the
\* cell is blank), state and zip are strings.  An addresses.csv without rows
\* stands for a missing one: run skips both.
RowTX(id) == [id |-> id, address |-> <<"123", "Main", "St">>, city |-> <<"Austin">>,
              state |-> "TX", zip5 |-> "73301"]
RowPR(id) == [id |-> id, address |-> <<"9", "Calle", "Sol">>, city |-> <<"San", "Juan">>,
              state |-> "PR", zip5 |-> "00901"]
RowNoCity(id) == [id |-> id, address |-> <<"5", "Elm", "St">>, city |-> <<>>,
                  state |-> "TX", zip5 |-> "73301"]

GeoRowLists ==
  UNION { {[k \in 1..n |-> IF kinds[k] = "tx" THEN RowTX(k)
                            ELSE IF kinds[k] = "pr" THEN RowPR(k) ELSE RowNoCity(k)] :
             kinds \in [1..n -> {"tx", "pr", "nocity"}]} : n \in 0..MaxRows }

GeoKeys == {KeyOf(RowTX(1)), KeyOf(RowPR(1))}

\* what strategy.geocode does with a query: no result, a result, or an exception
GeocodeOutcomes == {"none", "hit", "raise"}

HitPayload == [lat |-> 30, lon |-> -97, display_name |-> "found", source |-> "nominatim"]
FailurePayload == [lat |-> SqlNull, lon |-> SqlNull, display_name |-> "", source |-> "none"]

\* the tables an earlier run can have left: per address nothing, a result or a failure
SeedTables ==
  { {NewRow(k, f[k], 0) : k \in {x \in GeoKeys : f[x] # None}} :
      f \in [GeoKeys -> {None, HitPayload, FailurePayload}] }

TerritoryCodes == {"PR", "GU", "VI", "MP", "AS", "DC"}

\* _territory_full_name(code) is not None
HasTerritoryName(code) == Upper(code) \in TerritoryCodes

\* the labels of the list strategies built for a row
StrategiesOf(r) ==
  <<"full">> \o (IF r.zip5 # "" THEN <<"no-zip">> ELSE <<>>)
             \o (IF HasTerritoryName(r.state) THEN <<"territory">> ELSE <<>>)
             \o <<"city-state">>

\* not (address and city and st and zip5)
MissingFields(r) == r.address = <<>> \/ r.city = <<>> \/ r.state = "" \/ r.zip5 = ""

\* a cached failure taken for an address never looked up
CacheHit_ResultsOnly(cached) == cached # None /\ cached.lat # SqlNull

\* if cached: the dict that get returns is never empty
CacheHit(cached) == cached # None

\* a match that is never taken for coarse
IsCoarse_Never(which) == FALSE

\* which == "city-state"
IsCoarse(which) == which = "city-state"

NoRow == [kind |-> "none"]

\* GeocodeWorker(workspace, states, strategy) before run
NewWorker(ws, states) ==
  [pc |-> "begin", workspace |-> ws, states |-> states, cancel |-> FALSE,
   state_rows |-> <<>>, s |-> 0, i |-> 0, q |-> 0, strategies |-> <<>>,
   cached |-> None, got |-> "none", which |-> "", asked |-> <<>>, cancelled |-> FALSE,
   out_rows |-> <<>>, error_rows |-> <<>>,
   total_lookups |-> 0, total_cache_hits |-> 0, total_geocoded |-> 0, total_errors |-> 0,
   processed |-> 0, finished |-> 0, raised |-> FALSE, last |-> NoRow, left |-> -1]

GrandTotal(w) ==
  LET RECURSIVE Sum(_)
      Sum(k) == IF k = 0 THEN 0 ELSE Len(w.state_rows[k]) + Sum(k - 1)
  IN  Sum(Len(w.state_rows))

\* a signal emitted to the tab, handled later by the UI thread
Emitted(sig) == [geo_ui EXCEPT !.inbox = Append(@, sig)]

FinishedSignal == [name |-> "finished", state |-> ""]

\* self.finished.emit(...) followed by the return of run
Finish(w) == [w EXCEPT !.pc = "returned", !.finished = @ + 1]

workerFrame == <<solveVars, storeVars, uiVars, connVars, geo_queue, cache_now, cache_op, cache_ret>>

\* run up to the state loop: the no-workspace return, or the rows of every state read
WorkerBegin ==
  /\ worker.pc = "begin"
  /\ IF worker.workspace = ""
        THEN /\ worker' = Finish(worker)
             /\ geo_ui' = Emitted(FinishedSignal)
        ELSE /\ worker' = [worker EXCEPT !.pc = "state", !.s = 1,
                             !.state_rows = [k \in DOMAIN worker.states |->
                                               geo_out[worker.states[k]].addresses]]
             /\ UNCHANGED geo_ui
  /\ UNCHANGED <<cache_table, geo_out, workerFrame>>

\* the top of the state loop
WorkerState ==
  /\ worker.pc = "state"
  /\ IF worker.s > Len(worker.states)
        THEN /\ worker' = Finish(worker)
             /\ geo_ui' = Emitted(FinishedSignal)
        ELSE IF worker.cancel
        THEN /\ worker' = Finish([worker EXCEPT !.cancelled = TRUE])
             /\ geo_ui' = Emitted(FinishedSignal)
        ELSE IF worker.state_rows[worker.s] = <<>>
        THEN /\ worker' = [worker EXCEPT !.s = @ + 1]
             /\ UNCHANGED geo_ui
        ELSE /\ worker' = [worker EXCEPT !.pc = "row", !.i = 1, !.out_rows = <<>>,
                             !.error_rows = <<>>]
             /\ UNCHANGED geo_ui
  /\ UNCHANGED <<cache_table, geo_out, workerFrame>>

CurrentRow(w) == w.state_rows[w.s][w.i]

ErrorRow(r, reason, attempted) == [id |-> r.id, reason |-> reason, attempted_queries |-> attempted]
OutRow(r, norm, lat, lon) == [id |-> r.id, address |-> norm, lat |-> lat, lon |-> lon]

\* what became of a row: the cache entry found, the queries made and their
\* outcomes, whether the query loop was left on cancellation, and the cache write
RowDone(w, r, cached, outcome, broke, wrote) ==
  [kind |-> "row", id |-> r.id, state |-> w.states[w.s], fields |-> r, cached |-> cached,
   asked |-> w.asked, strategies |-> w.strategies, outcome |-> outcome, broke |-> broke,
   wrote |-> wrote]

\* the top of the row loop: the end of the rows, cancellation, a row with missing
\* fields, a row found in the cache, or the start of the queries
WorkerRow ==
  /\ worker.pc = "row"
  /\ LET rows == worker.state_rows[worker.s]
     IN  IF worker.i > Len(rows)
           THEN worker' = [worker EXCEPT !.pc = "write"]
         ELSE IF worker.cancel
           THEN worker' = [worker EXCEPT !.pc = "write", !.cancelled = TRUE]
         ELSE LET r == rows[worker.i]
                  w0 == [worker EXCEPT !.asked = <<>>, !.strategies = <<>>, !.cached = None]
              IN  IF MissingFields(r)
                    THEN worker' = [w0 EXCEPT
                           !.error_rows = Append(@, ErrorRow(r, "missing_fields", 0)),
                           !.total_errors = @ + 1, !.processed = @ + 1, !.i = @ + 1,
                           !.last = RowDone(w0, r, None, "missing_fields", FALSE, None)]
                  ELSE LET norm == KeyOf(r)
                           cached == get(cache_table, norm)
                       IN  IF CacheHit(cached)
                             THEN IF cached.lat # SqlNull /\ cached.lon # SqlNull
                                    THEN worker' = [w0 EXCEPT
                                           !.total_lookups = @ + 1, !.total_cache_hits = @ + 1,
                                           !.out_rows = Append(@, OutRow(r, norm, cached.lat, cached.lon)),
                                           !.processed = @ + 1, !.i = @ + 1,
                                           !.last = RowDone(w0, r, cached, "cache", FALSE, None)]
                                    ELSE worker' = [w0 EXCEPT
                                           !.total_lookups = @ + 1, !.total_cache_hits = @ + 1,
                                           !.error_rows = Append(@, ErrorRow(r, "cached_failure", 0)),
                                           !.total_errors = @ + 1,
                                           !.processed = @ + 1, !.i = @ + 1,
                                           !.last = RowDone(w0, r, cached, "cached_failure", FALSE, None)]
                             ELSE worker' = [w0 EXCEPT
                                    !.total_lookups = @ + 1, !.pc = "query", !.q = 1,
                                    !.cached = cached,
                                    !.strategies = StrategiesOf(r), !.got = "none", !.which = ""]
  /\ UNCHANGED <<cache_table, geo_ui, geo_out, workerFrame>>

\* after the query loop: an error row and a failure entry when nothing was got,
\* an error row for a city-state match, else a cache entry and an output row
Settled(w, broke, table, now) ==
  LET r == CurrentRow(w)
      norm == KeyOf(r)
      n == Len(w.strategies)
      w1 == [w EXCEPT !.pc = "row", !.processed = @ + 1, !.i = @ + 1]
  IN  IF w.got = "none"
        THEN [worker |-> [w1 EXCEPT !.error_rows = Append(@, ErrorRow(r, "no_result", n)),
                                    !.total_errors = @ + 1,
                                    !.last = RowDone(w, r, w.cached, "no_result", broke, FailurePayload)],
              table |-> put(table, norm, FailurePayload, now)]
      ELSE IF IsCoarse(w.which)
        THEN [worker |-> [w1 EXCEPT !.error_rows = Append(@, ErrorRow(r, "coarse_skip", n)),
                                    !.total_errors = @ + 1,
                                    !.last = RowDone(w, r, w.cached, "coarse_skip", broke, None)],
              table |-> table]
      ELSE [worker |-> [w1 EXCEPT !.out_rows = Append(@, OutRow(r, norm, HitPayload.lat, HitPayload.lon)),
                                  !.total_geocoded = @ + 1,
                                  !.last = RowDone(w, r, w.cached, "geocoded", broke, HitPayload)],
            table |-> put(table, norm, HitPayload, now)]

\* one turn of the query loop up to the answer of the geocoder
WorkerQuery ==
  /\ worker.pc = "query"
  /\ IF worker.q > Len(worker.strategies)
        THEN /\ worker' = Settled(worker, FALSE, cache_table, cache_now).worker
             /\ cache_table' = Settled(worker, FALSE, cache_table, cache_now).table
      ELSE IF worker.cancel
        THEN LET w == [worker EXCEPT !.cancelled = TRUE]
             IN  /\ worker' = Settled(w, TRUE, cache_table, cache_now).worker
                 /\ cache_table' = Settled(w, TRUE, cache_table, cache_now).table
      ELSE \E res \in GeocodeOutcomes :
             LET label == worker.strategies[worker.q]
                 w == [worker EXCEPT !.asked = Append(@, [label |-> label, res |-> res])]
             IN  IF res = "raise"
                   THEN /\ worker' = [w EXCEPT !.pc = "returned", !.raised = TRUE]
                        /\ UNCHANGED cache_table
                 ELSE IF res = "hit"
                   THEN LET g == [w EXCEPT !.got = "hit", !.which = label]
                        IN  /\ worker' = Settled(g, FALSE, cache_table, cache_now).worker
                            /\ cache_table' = Settled(g, FALSE, cache_table, cache_now).table
                 ELSE /\ worker' = [w EXCEPT !.pc = "asked"]
                      /\ UNCHANGED cache_table
  /\ UNCHANGED <<geo_ui, geo_out, workerFrame>>

\* after a query without result: the second cancellation check, then the next query
WorkerAfterQuery ==
  /\ worker.pc = "asked"
  /\ IF worker.cancel
        THEN LET w == [worker EXCEPT !.cancelled = TRUE]
             IN  /\ worker' = Settled(w, TRUE, cache_table, cache_now).worker
                 /\ cache_table' = Settled(w, TRUE, cache_table, cache_now).table
        ELSE /\ worker' = [worker EXCEPT !.pc = "query", !.q = @ + 1]
             /\ UNCHANGED cache_table
  /\ UNCHANGED <<geo_ui, geo_out, workerFrame>>

\* the output files of the state, written or not, then the end of the state loop body
WorkerWrite ==
  /\ worker.pc = "write"
  /\ \E ok \in BOOLEAN :
       LET st == worker.states[worker.s]
           sigs == IF ok THEN <<[name |-> "state_done", state |-> st]>> ELSE <<>>
       IN  /\ geo_out' = IF ok
                           THEN [geo_out EXCEPT ![st] =
                                   [@ EXCEPT !.geocoded = worker.out_rows,
                                             !.errors = IF worker.error_rows # <<>>
                                                        THEN worker.error_rows ELSE @,
                                             !.written = TRUE]]
                           ELSE geo_out
           /\ IF worker.cancelled
                 THEN /\ worker' = Finish(worker)
                      /\ geo_ui' = [geo_ui EXCEPT !.inbox = @ \o sigs \o <<FinishedSignal>>]
                 ELSE /\ worker' = [worker EXCEPT !.pc = "state", !.s = @ + 1]
                      /\ geo_ui' = [geo_ui EXCEPT !.inbox = @ \o sigs]
  /\ UNCHANGED <<cache_table, workerFrame>>

\* request_cancel called directly on the worker object
WorkerRequestCancel ==
  /\ worker.pc \notin {"none", "returned"}
  /\ ~worker.cancel
  /\ worker' = [worker EXCEPT !.cancel = TRUE]
  /\ UNCHANGED <<cache_table, geo_ui, geo_out, workerFrame>>

InitWorker ==
  /\ csv_header = FleetHeader
  /\ csv_rows = <<>>
  /\ cluster_id = 0
  /\ speed_mph = 50
  /\ default_service_h = 48
  /\ pc = "ready"
  /\ result = ReturnedEarly
  /\ InitStore
  /\ InitUi
  /\ InitConn
  /\ cache_table \in SeedTables
  /\ cache_now = 1
  /\ cache_op = NoCall
  /\ cache_ret = None
  /\ InitGeoUi
  /\ geo_queue = <<>>
  /\ \E rows \in GeoRowLists, more \in {<<>>, <<RowTX(9)>>} :
       geo_out = [st \in States |-> [NoFiles EXCEPT !.addresses = IF st = "TX" THEN rows ELSE more]]
  /\ worker \in {NewWorker(ws, sts) : ws \in {"", "ws"}, sts \in {<<"TX">>, <<"TX", "CA">>}}

NextWorker ==
  \/ WorkerBegin
  \/ WorkerState
  \/ WorkerRow
  \/ WorkerQuery
  \/ WorkerAfterQuery
  \/ WorkerWrite
  \/ WorkerRequestCancel

SpecWorker == InitWorker /\ [][NextWorker]_vars

\* ---------------------------------------------------------- the geocode tab
\* The workspace "ws" holds the state directories; any other holds none.
GeoWorkspaces == {"", "ws", "ws2"}
StateOrder == <<"CA", "TX">>          \* sorted(self.workspace.iterdir())

HasAddresses(st) == geo_out[st].addresses # <<>>
HasGeocoded(st) == geo_out[st].written

\* the items refresh_state_list puts into state_list
ListedStates(ws) ==
  IF ws = "ws" THEN {st \in States : HasAddresses(st) \/ HasGeocoded(st)} ELSE {}

\* run has been started and has not returned
Active(w) == w.pc \notin {"none", "returned"}

\* refresh_state_list: the list is cleared and filled again, no item is current
refresh_state_list(u) == [u EXCEPT !.current = "", !.geocode_btn = FALSE]

\* on_state_selected up to the buttons
on_state_selected(u, state_code) ==
  IF u.workspace = "" \/ state_code = "" THEN [u EXCEPT !.geocode_btn = FALSE]
  ELSE [u EXCEPT !.geocode_btn = TRUE]

\* the rows run has not begun
RowsNotBegun(w) ==
  IF w.pc = "begin"
    THEN LET RECURSIVE Sum(_)
             Sum(k) == IF k = 0 THEN 0 ELSE Len(geo_out[w.states[k]].addresses) + Sum(k - 1)
         IN  Sum(Len(w.states))
    ELSE GrandTotal(w) - w.processed - (IF w.pc \in {"query", "asked"} THEN 1 ELSE 0)

\* a call of request_cancel queued on the thread of the worker
Queued(q) == IF Len(q) < MaxQueue THEN Append(q, "request_cancel") ELSE q

tabFrame == <<solveVars, storeVars, uiVars, connVars, cacheVars, geo_out>>

GeoSetWorkspace ==
  /\ \E path_str \in GeoWorkspaces :
       LET u == [geo_ui EXCEPT !.workspace = path_str]
       IN  geo_ui' = [refresh_state_list(u) EXCEPT !.geocode_btn = FALSE,
                                                   !.geocode_all_btn = (path_str # ""),
                                                   !.cancel_btn = FALSE]
  /\ IF Active(worker)
        THEN /\ geo_queue' = Queued(geo_queue)
             /\ worker' = IF worker.left = -1
                             THEN [worker EXCEPT !.left = RowsNotBegun(worker)]
                             ELSE worker
        ELSE UNCHANGED <<geo_queue, worker>>
  /\ UNCHANGED tabFrame

\* the user picks another item of state_list
GeoSelectState ==
  /\ \E st \in ListedStates(geo_ui.workspace) \ {geo_ui.current} :
       geo_ui' = on_state_selected([geo_ui EXCEPT !.current = st], st)
  /\ UNCHANGED <<worker, geo_queue, tabFrame>>

_on_refresh_view ==
  /\ geo_ui' = refresh_state_list(geo_ui)
  /\ UNCHANGED <<worker, geo_queue, tabFrame>>

\* _start_geocoding with a workspace: the buttons, a new worker and its thread
StartGeocoding(states) ==
  /\ geo_ui.unhandled < MaxRuns
  /\ worker' = NewWorker(geo_ui.workspace, states)
  /\ geo_queue' = <<>>
  /\ geo_ui' = [geo_ui EXCEPT !.geocode_btn = FALSE, !.geocode_all_btn = FALSE,
                              !.clear_cache_btn = FALSE, !.cancel_btn = TRUE,
                              !.unhandled = @ + 1,
                              !.orphans = IF Active(worker) THEN @ + 1 ELSE @]

\* a click on Geocode, with a valid email entered
on_geocode ==
  /\ geo_ui.geocode_btn
  /\ IF geo_ui.current = "" \/ geo_ui.workspace = ""
        THEN UNCHANGED <<worker, geo_queue, geo_ui>>
        ELSE StartGeocoding(<<geo_ui.current>>)
  /\ UNCHANGED tabFrame

\* a click on Geocode All, with a valid email entered and the question answered Yes
on_geocode_all ==
  /\ geo_ui.geocode_all_btn
  /\ LET states == SelectSeq(StateOrder, LAMBDA st : geo_ui.workspace = "ws" /\ HasAddresses(st))
     IN  IF geo_ui.workspace = "" \/ states = <<>>
           THEN UNCHANGED <<worker, geo_queue, geo_ui>>
           ELSE StartGeocoding(states)
  /\ UNCHANGED tabFrame

\* a click on Cancel: two queued calls of request_cancel and a direct one
_on_cancel_clicked ==
  /\ geo_ui.cancel_btn
  /\ worker.pc # "none"
  /\ geo_queue' = Queued(Queued(geo_queue))
  /\ worker' = IF Active(worker) THEN [worker EXCEPT !.cancel = TRUE] ELSE worker
  /\ geo_ui' = [geo_ui EXCEPT !.cancel_btn = FALSE]
  /\ UNCHANGED tabFrame

\* the event loop of the worker thread runs a queued call: only once run has returned
GeoDeliverQueued ==
  /\ geo_queue # <<>>
  /\ worker.pc = "returned"
  /\ geo_queue' = Tail(geo_queue)
  /\ worker' = [worker EXCEPT !.cancel = TRUE]
  /\ UNCHANGED <<geo_ui, tabFrame>>

\* _on_worker_state_done up to the buttons
_on_worker_state_done(u, state) ==
  LET current == u.current
      r == refresh_state_list(u)
  IN  IF current # "" /\ current \in ListedStates(u.workspace)
        THEN on_state_selected([r EXCEPT !.current = current], current)
        ELSE r

\* _on_worker_finished up to the buttons
_on_worker_finished(u) ==
  [u EXCEPT !.geocode_btn = (u.current # ""), !.geocode_all_btn = TRUE,
            !.clear_cache_btn = TRUE, !.cancel_btn = FALSE,
            !.unhandled = IF @ > 0 THEN @ - 1 ELSE 0]

\* the UI thread handles the oldest signal of a worker
GeoHandleSignal ==
  /\ geo_ui.inbox # <<>>
  /\ LET sig == Head(geo_ui.inbox)
         u == [geo_ui EXCEPT !.inbox = Tail(@)]
     IN  geo_ui' = IF sig.name = "state_done" THEN _on_worker_state_done(u, sig.state)
                   ELSE _on_worker_finished(u)
  /\ UNCHANGED <<worker, geo_queue, tabFrame>>

\* a worker that self.worker no longer refers to ends its run
OrphanFinished ==
  /\ geo_ui.orphans > 0
  /\ geo_ui' = [geo_ui EXCEPT !.orphans = @ - 1, !.inbox = Append(@, FinishedSignal)]
  /\ UNCHANGED <<worker, geo_queue, tabFrame>>

InitGeoTab ==
  /\ csv_header = FleetHeader
  /\ csv_rows = <<>>
  /\ cluster_id = 0
  /\ speed_mph = 50
  /\ default_service_h = 48
  /\ pc = "ready"
  /\ result = ReturnedEarly
  /\ InitStore
  /\ InitUi
  /\ InitConn
  /\ InitCache
  /\ worker = NoWorker
  /\ InitGeoUi
  /\ geo_queue = <<>>
  /\ geo_out = [st \in States |->
                  [NoFiles EXCEPT !.addresses = IF st = "TX" THEN <<RowTX(1)>> ELSE <<>>]]

NextGeoTab ==
  \/ WorkerBegin
  \/ WorkerState
  \/ WorkerRow
  \/ WorkerQuery
  \/ WorkerAfterQuery
  \/ WorkerWrite
  \/ GeoSetWorkspace
  \/ GeoSelectState
  \/ _on_refresh_view
  \/ on_geocode
  \/ on_geocode_all
  \/ _on_cancel_clicked
  \/ GeoDeliverQueued
  \/ GeoHandleSignal
  \/ OrphanFinished

SpecGeoTab == InitGeoTab /\ [][NextGeoTab]_vars

\* ------------------------------------- the cache used by two threads at once
\* Every method opens its own connection (connect creates the file and the
\* table when missing), runs one statement, commits and closes; SQLite makes the
\* statement atomic.  clear unlinks the file; a connection opened before keeps
\* the unlinked file, as an open file does on POSIX systems.
ThreadCalls == {"get", "put", "clear_by_address", "clear_by_state"}
ThreadCodes == {"TX", "pr"}

\* the addresses with an entry among rows that LIKE '%, CODE %' matches
MatchedBy(code) == {k \in GeoKeys : Like(k, Upper(code))}

\* the values a get has to show for the address: those of the last completed put
\* that no completed deletion followed
Expected(key) ==
  IF \E e \in cache_last : e.key = key
    THEN (CHOOSE e \in cache_last : e.key = key).payload
    ELSE None

\* the statement of the call on the rows of the file the connection holds
Executed(c, rows, now) ==
  IF c.name = "get" THEN [table |-> rows, ret |-> get(rows, c.key)]
  ELSE IF c.name = "put" THEN [table |-> put(rows, c.key, c.payload, now), ret |-> None]
  ELSE IF c.name = "clear_by_address" THEN clear_by_address(rows, c.key)
  ELSE clear_by_state(rows, c.code)

\* the same on the expected values
Completed(c, last) ==
  IF c.name = "get" THEN last
  ELSE IF c.name = "put"
    THEN {e \in last : e.key # c.key} \cup {[key |-> c.key, payload |-> c.payload]}
  ELSE IF c.name = "clear_by_address" THEN {e \in last : e.key # c.key}
  ELSE {e \in last : e.key \notin MatchedBy(c.code)}

\* another call begins: a get in progress is no longer alone
Disturbed(c) == IF c.pc = "idle" THEN c ELSE [c EXCEPT !.quiet = FALSE]

connFrame == <<solveVars, storeVars, uiVars, geoVars, cache_now>>

\* connect() at the start of a method
ThreadConnect ==
  /\ \E t \in Threads, name \in ThreadCalls, key \in GeoKeys, code \in ThreadCodes,
        p \in {HitPayload, FailurePayload} :
       /\ cache_conn[t].pc = "idle"
       /\ name # "clear_by_state" => code = "TX"
       /\ name = "clear_by_state" => key = KeyOf(RowTX(1))
       /\ name # "put" => p = HitPayload
       /\ cache_conn' = [u \in Threads |->
              IF u = t
                THEN [pc |-> "connected", name |-> name, key |-> key, code |-> code,
                      payload |-> p, stale |-> FALSE, rows |-> {},
                      quiet |-> \A v \in Threads \ {t} : cache_conn[v].pc = "idle",
                      expect |-> Expected(key)]
                ELSE Disturbed(cache_conn[u])]
  /\ cache_file' = TRUE
  /\ UNCHANGED <<cache_table, cache_last, cache_op, cache_ret, connFrame>>

\* the statement, commit and close
ThreadExecute ==
  /\ \E t \in Threads :
       LET c == cache_conn[t]
       IN  /\ c.pc = "connected"
           /\ cache_table' = IF c.stale THEN cache_table
                              ELSE Executed(c, cache_table, cache_now).table
           /\ cache_ret' = IF c.stale THEN Executed(c, c.rows, cache_now).ret
                            ELSE Executed(c, cache_table, cache_now).ret
           /\ cache_last' = Completed(c, cache_last)
           /\ cache_op' = [name |-> c.name, key |-> c.key, thread |-> t, quiet |-> c.quiet,
                           expect |-> c.expect, stale |-> c.stale]
           /\ cache_conn' = [cache_conn EXCEPT ![t] = NoConn]
  /\ UNCHANGED <<cache_file, connFrame>>

\* clear: the file is unlinked when it exists
ThreadClear ==
  /\ \E t \in Threads :
       /\ cache_conn[t].pc = "idle"
       /\ cache_conn' = [u \in Threads |->
              IF cache_conn[u].pc = "idle" THEN cache_conn[u]
              ELSE IF cache_file /\ ~cache_conn[u].stale
                THEN [cache_conn[u] EXCEPT !.stale = TRUE, !.rows = cache_table, !.quiet = FALSE]
                ELSE [cache_conn[u] EXCEPT !.quiet = FALSE]]
       /\ cache_op' = [name |-> "clear", key |-> <<>>, thread |-> t, quiet |-> FALSE,
                       expect |-> None, stale |-> FALSE]
  /\ cache_ret' = cache_file
  /\ cache_file' = FALSE
  /\ cache_table' = {}
  /\ cache_last' = {}
  /\ UNCHANGED connFrame

InitThreads ==
  /\ csv_header = FleetHeader
  /\ csv_rows = <<>>
  /\ cluster_id = 0
  /\ speed_mph = 50
  /\ default_service_h = 48
  /\ pc = "ready"
  /\ result = ReturnedEarly
  /\ InitStore
  /\ InitUi
  /\ InitGeo
  /\ InitCache
  /\ InitConn

NextThreads ==
  \/ ThreadConnect
  \/ ThreadExecute
  \/ ThreadClear

SpecThreads == InitThreads /\ [][NextThreads]_vars

\* ------------------------------------- normalize_address, character by character
\* the arguments: texts of letters and blanks
TextCells == UNION { [1..n -> {"a", " "}] : n \in 0..MaxText }

RECURSIVE JoinCommaSpace(_)
JoinCommaSpace(parts) ==
  IF parts = <<>> THEN <<>>
  ELSE IF Len(parts) = 1 THEN Head(parts)
       ELSE Head(parts) \o <<",", " ">> \o JoinCommaSpace(Tail(parts))

\* the list parts: the stripped address and city, f"{state} {zip5}" of the stripped
\* state and zip5, and "USA"
PartsOf(address, city, state, zip5) ==
  <<Strip(address), Strip(city), Strip(state) \o <<" ">> \o Strip(zip5), <<"U", "S", "A">>>>

\* ", ".join([p for p in parts if p])
normalize_address_chars(address, city, state, zip5) ==
  JoinCommaSpace(SelectSeq(PartsOf(address, city, state, zip5), LAMBDA p : p # <<>>))

\* text.split(", ")
RECURSIVE SplitCommaSpace(_)
SplitCommaSpace(chars) ==
  LET at == {k \in 1..(Len(chars) - 1) : chars[k] = "," /\ chars[k + 1] = " "}
  IN  IF at = {} THEN <<chars>>
      ELSE LET c == CHOOSE k \in at : \A m \in at : k <= m
           IN  <<SubSeq(chars, 1, c - 1)>> \o SplitCommaSpace(SubSeq(chars, c + 2, Len(chars)))

InitNormalize ==
  /\ csv_header = FleetHeader
  /\ csv_rows = <<>>
  /\ cluster_id = 0
  /\ speed_mph = 50
  /\ default_service_h = 48
  /\ pc = "ready"
  /\ result = ReturnedEarly
  /\ InitStore
  /\ InitUi
  /\ InitConn
  /\ InitGeo
  /\ cache_table = {}
  /\ cache_now = 0
  /\ cache_op \in {[name |-> "pending", address |-> a, city |-> c, state |-> st, zip5 |-> z] :
                     a \in TextCells, c \in TextCells, st \in TextCells, z \in TextCells}
  /\ cache_ret = None

CallNormalizeAddress ==
  /\ cache_op.name = "pending"
  /\ cache_op' = [cache_op EXCEPT !.name = "normalize_address"]
  /\ cache_ret' = [kind |-> "text",
                   text |-> normalize_address_chars(cache_op.address, cache_op.city,
                                                    cache_op.state, cache_op.zip5)]
  /\ UNCHANGED <<cache_table, cache_now, solveVars, storeVars, uiVars, connVars, geoVars>>

NextNormalize == CallNormalizeAddress

SpecNormalize == InitNormalize /\ [][NextNormalize]_vars

\* ------------------------------------------- the VRPTW tab and its workspace
\* the workspace paths handed to the tab: none, or the workspace of the files
TabWorkspaces == {"", "ws"}

\* set_workspace(path_str): the log is cleared, _refresh_states empties the state
\* list and lists the state folders again with no item current (a current item
\* going away calls on_state_selected("")), the results are cleared and Run is
\* disabled; last_solution and "View on Map" are not touched
set_workspace ==
  /\ run.pc = "idle"
  /\ \E path_str \in TabWorkspaces : workspace' = path_str
  /\ op' = "set_workspace"
  /\ log' = {}
  /\ state_cur' = ""
  /\ cluster_combo' = IF state_cur # "" THEN <<>> ELSE cluster_combo
  /\ combo_index' = IF state_cur # "" THEN -1 ELSE combo_index
  /\ results' = EmptyTable
  /\ run_btn' = FALSE
  /\ UNCHANGED <<solveVars, clustered, files, clock, loaded, saved, fresh>>
  /\ UNCHANGED <<ignore_clusters, map_btn, last_solution, run>>
  /\ UNCHANGED <<cacheVars, connVars, geoVars>>

\* the user picks a state of the list, which shows the folders of the workspace
SelectListedState ==
  /\ workspace # ""
  /\ SelectState

\* the clustered.csv of the tab: every column, one site "a" with good coordinates
TabRowSeqs == {<<a>> : a \in [id : {<<"a">>}, pt : Points, cid : ClusterCells, svc : SvcCells]}

\* the tab after construction, before the main window hands it a workspace
InitTab ==
  /\ csv_header = <<"id", "lat", "lon", "cluster_id", "service_time_hours">>
  /\ csv_rows \in TabRowSeqs
  /\ cluster_id = 0
  /\ speed_mph \in RunSpeeds
  /\ default_service_h \in DefaultServiceQ
  /\ pc = "ready"
  /\ result = ReturnedEarly
  /\ workspace = ""
  /\ clustered = {StoreState}
  /\ files = [st \in States |-> MissingFile]
  /\ clock = 0
  /\ op = "init"
  /\ loaded = None
  /\ saved = NoSave
  /\ fresh = FALSE
  /\ InitUi
  /\ InitCache
  /\ InitConn
  /\ InitGeo

NextTab ==
  \/ set_workspace
  \/ SelectListedState
  \/ ToggleIgnoreClusters
  \/ SelectCluster
  \/ OnRunBegin
  \/ OnRunSolveUnit
  \/ OnRunFinish

SpecTab == InitTab /\ [][NextTab]_vars

\* ------------------------------------------------------------------ claims
Called == pc \in {"single", "statewide"}

\* every (route, position) pair of the returned route list
RoutePositions == {kp \in (DOMAIN result.routes) \X (1..MaxSites + 1) : kp[2] \in DOMAIN result.routes[kp[1]]}

\* C1: every solve returns either no route, or routes whose site ids are exactly
\* the input site ids with no site id occurring twice across all routes.
C1_RoutesCoverEachIdOnce ==
  (Called /\ result.kind = "returned") =>
     \/ result.routes = <<>>
     \/ /\ {result.routes[kp[1]][kp[2]] : kp \in RoutePositions} = Range(result.ids)
        /\ \A x, y \in RoutePositions :
             x # y => result.routes[x[1]][x[2]] # result.routes[y[1]][y[2]]

\* sum of the first m legs of the closed tour depot, r[1], ..., r[Len(r)], depot
RECURSIVE LegSum(_, _, _)
LegSum(M, r, m) ==
  IF m = 0 THEN 0
  ELSE LegSum(M, r, m - 1)
       + M[IF m = 1 THEN 0 ELSE r[m - 1]][IF m = Len(r) + 1 THEN 0 ELSE r[m]]

\* C2: along every returned route the cumulative time, from 0 at the depot through
\* every leg including the leg back to the depot, stays within [0, 480].
C2_CumulWithinHorizon ==
  Called =>
    \A k \in DOMAIN result.node_routes :
      \A m \in 0..(Len(result.node_routes[k]) + 1) :
        /\ LegSum(result.time_matrix, result.node_routes[k], m) >= 0
        /\ LegSum(result.time_matrix, result.node_routes[k], m) <= 480

C2_Witness ==
  /\ Called
  /\ \E k \in DOMAIN result.node_routes :
       /\ Len(result.node_routes[k]) = 2
       /\ LegSum(result.time_matrix, result.node_routes[k], 3) = 480

\* C3: the matrix built for n sites has M[i][j] = travel_minutes(i,j) + service_minutes[i]
\* for every ordered pair of sites, M[i][0] = service_minutes[i], and a zero depot row.
C3_MatrixMatchesReference ==
  (Called /\ result.built) =>
    /\ DOMAIN result.time_matrix = 0..result.n
    /\ \A i, j \in 1..result.n :
         result.time_matrix[i][j]
           = travel_min(result.rows, speed_mph, i, j) + result.svc_min[i]
    /\ \A i \in 1..result.n : result.time_matrix[i][0] = result.svc_min[i]
    /\ \A j \in 0..result.n : result.time_matrix[0][j] = 0

C3_Witness ==
  /\ Called
  /\ result.built
  /\ result.n = 2
  /\ result.svc_min[1] # result.svc_min[2]
  /\ travel_min(result.rows, speed_mph, 1, 2) > 0
  /\ result.time_matrix[1][2] # result.time_matrix[2][1]

\* C4 as stated: the diagonal of every built matrix is zero.
C4_DiagonalZero ==
  (Called /\ result.built) =>
    \A i \in 0..result.n : result.time_matrix[i][i] = 0

\* C4 amended: the depot's diagonal entry is 0 and the diagonal entry of site i is
\* service_minutes[i] (the self travel time 0 plus the service time of the site).
C4_DiagonalIsServiceTime ==
  (Called /\ result.built) =>
    /\ result.time_matrix[0][0] = 0
    /\ \A i \in 1..result.n : result.time_matrix[i][i] = result.svc_min[i]

C4_Witness ==
  /\ Called
  /\ result.built
  /\ result.n = 2
  /\ result.time_matrix[1][1] = 240
  /\ result.time_matrix[2][2] = 540

\* C8: a header with a lat/latitude column and a lon/longitude column is accepted
\* by both entry points wherever those columns stand, the first column included.
C8_LatLonHeaderAccepted ==
  (/\ Called
   /\ HasColumn(csv_header, {"lat", "latitude"})
   /\ HasColumn(csv_header, {"lon", "longitude"}))
  => result.error # "lat/lon (or latitude/longitude) columns not found"

C5_SaveLoadRoundTrip ==
  (op = "load" /\ fresh /\ state_cur = StoreState) =>
    /\ loaded.kind = "solution"
    /\ RoutePairs(loaded.all_rows) = RoutePairs(saved.all_rows)
    /\ loaded.mode = saved.mode
    /\ loaded.speed_mph = saved.speed_mph
    /\ loaded.service_hours = saved.service_hours

CorruptRow(row) == ~row.vehicle.ok \/ ~row.stops.ok

RECURSIVE WellFormedRows(_)
WellFormedRows(rows) ==
  IF rows = <<>> THEN <<>>
  ELSE IF CorruptRow(Head(rows)) THEN WellFormedRows(Tail(rows))
       ELSE <<Head(rows)>> \o WellFormedRows(Tail(rows))

\* C6: when solved.csv holds corrupt rows (a non-integer vehicle or stops field)
\* next to well-formed rows, _load_solution returns the solution made of the
\* well-formed rows.
C6_CorruptRowsSkipped ==
  (/\ op = "load"
   /\ workspace # ""
   /\ state_cur = StoreState
   /\ files[StoreState].exists
   /\ files[StoreState].readable
   /\ \E k \in DOMAIN files[StoreState].rows : CorruptRow(files[StoreState].rows[k])
   /\ \E k \in DOMAIN files[StoreState].rows :
        /\ ~CorruptRow(files[StoreState].rows[k])
        /\ files[StoreState].rows[k].speed_mph.ok
        /\ files[StoreState].rows[k].service_hours.ok)
  => /\ loaded.kind = "solution"
     /\ loaded.all_rows
          = ReadRows(WellFormedRows(files[StoreState].rows), 1, ReadStart).all_rows

\* a solved.csv from which no solution can be had: missing, unreadable, without
\* data rows, or with a row whose vehicle or stops field is not an integer
Unavailable(f) ==
  \/ ~f.exists
  \/ ~f.readable
  \/ f.rows = <<>>
  \/ \E k \in DOMAIN f.rows : CorruptRow(f.rows[k])

C10_InfeasibleSignalOnlyWhenInfeasible ==
  (run.pc = "idle" /\ results.kind = "no_feasible") =>
    \A k \in DOMAIN run.units :
      /\ run.units[k].kind = "returned"
      /\ run.units[k].built
      /\ ~run.units[k].found

\* the rows a sequence of solved units contributes, in order
RECURSIVE RowsOfUnits(_)
RowsOfUnits(us) ==
  IF us = <<>> THEN <<>>
  ELSE RowsOfUnits(SubSeq(us, 1, Len(us) - 1))
         \o UnitRows("", LabelOf(us[Len(us)].unit),
                     IF us[Len(us)].kind = "raised" THEN <<>> ELSE us[Len(us)].routes)

Unstated(rows) == [k \in DOMAIN rows |-> [rows[k] EXCEPT !.state = ""]]

\* C11: in a run over several clusters a cluster whose solve raises costs only
\* its own routes: the collected rows are the routes of every cluster that
\* returned, in order, and every requested cluster is attempted, the ones after
\* a failure included.
C11_FailureConfinedToCluster ==
  (run.cluster_ids # <<>>) =>
     /\ Unstated(run.all_rows) = RowsOfUnits(run.units)
     /\ [k \in DOMAIN run.units |-> run.units[k].unit] \o run.todo = run.cluster_ids
     /\ (run.pc = "idle" => Len(run.units) = Len(run.cluster_ids))

\* a finished run over two clusters: the first one raised, the second one was
\* still solved and its routes are shown
C11_Witness ==
  /\ run.pc = "idle"
  /\ Len(run.cluster_ids) = 2
  /\ Len(run.units) = 2
  /\ run.units[1].kind = "raised"
  /\ run.units[2].kind = "returned"
  /\ run.units[2].routes # <<>>
  /\ results.kind = "routes"
  /\ Unstated(results.rows) = UnitRows("", LabelOf(run.units[2].unit), run.units[2].routes)

\* C12: a solve that builds the routing model for exactly one site returns one
\* route holding exactly that site when the site's service time is at most the
\* horizon, and no route when it is longer.
C12_SingleSite ==
  (Called /\ result.built /\ result.n = 1) =>
     IF result.svc_min[1] <= horizon
     THEN result.found /\ result.routes = << <<result.ids[1]>> >>
     ELSE ~result.found /\ result.routes = <<>>

\* the boundary: one site whose service time is the whole horizon, on its route
C12_Witness ==
  /\ Called /\ result.built /\ result.n = 1
  /\ result.svc_min[1] = horizon
  /\ result.routes = << <<result.ids[1]>> >>

SamePoint == \A k \in DOMAIN result.rows : result.rows[k].pt = result.rows[1].pt

C14_TwoFarSitesTwoRoutes ==
  (Called /\ result.built /\ result.n = 2 /\ result.svc_min = <<60, 60>>
     /\ result.time_matrix[1][2] = 600 + 60 /\ result.time_matrix[2][1] = 600 + 60) =>
     /\ Len(result.routes) = 2
     /\ Len(result.routes[1]) = 1
     /\ Len(result.routes[2]) = 1
     /\ Range(result.routes[1]) \cup Range(result.routes[2]) = Range(result.ids)

\* the scenario solved: 500 miles, 50 mph, two routes
C14_Witness ==
  /\ Called /\ result.built /\ result.n = 2 /\ result.svc_min = <<60, 60>>
  /\ speed_mph = 50
  /\ Abs(result.rows[1].pt - result.rows[2].pt) = 500
  /\ result.time_matrix[1][2] = 660
  /\ Len(result.routes) = 2
  /\ result.routes[1] # result.routes[2]

\* C15: a requested cluster without sites is solved without an exception and to
\* no route, the log says that the cluster was skipped, and the run goes on with
\* the clusters after it.
C15_EmptyClusterSkipLogged ==
  \A k \in DOMAIN run.units :
     (run.units[k].unit # AllClusters /\ run.units[k].n = 0) =>
        /\ run.units[k].kind = "returned"
        /\ run.units[k].routes = <<>>
        /\ "cluster_skipped" \in log
        /\ [i \in DOMAIN run.units |-> run.units[i].unit] \o run.todo = run.cluster_ids

\* the solved.csv that one _save_solution call leaves, whatever was there before
WrittenBy(sv, at) ==
  _save_solution([st \in States |-> MissingFile], "ws", sv.state, sv.all_rows, sv.mode,
                 sv.speed_mph, sv.service_hours, at)[sv.state]

\* C16: after two successive _save_solution calls for one region, _load_solution
\* of the region returns exactly the routes and parameters of the second call and
\* nothing of the first, and the solved.csv of every other region is as it was
\* before the calls.
C16_LastSaveWins ==
  (op = "load" /\ fresh /\ clock >= 2 /\ state_cur = StoreState) =>
     /\ loaded.kind = "solution"
     /\ RoutePairs(loaded.all_rows) = RoutePairs(saved.all_rows)
     /\ loaded.mode = saved.mode
     /\ loaded.speed_mph = saved.speed_mph
     /\ loaded.service_hours = saved.service_hours
     /\ \A st \in States \ {StoreState} : files[st] = EarlierSolved(st)

\* the file of a region after a save is the file the last call alone writes: no
\* row or parameter of an earlier call is left in it
LastWriteOverwrites ==
  (op = "save" /\ workspace # "") => files[saved.state] = WrittenBy(saved, clock)

\* every admitted assignment of the instance is priced
AllPriced == Len(csv_rows) <= MaxSites

\* C17: of two admitted assignments of one instance the one with fewer vehicles
\* has the strictly lower objective, so an assignment of least objective uses the
\* least number of vehicles any admitted assignment uses.
C17_FewerVehiclesCheaper ==
  (pc = "priced") =>
     /\ \A t \in FleetCandidates :
          result.vehicles < Len(t) => result.objective < Objective(FleetMatrix, t)
     /\ (AllPriced /\ \A t \in FleetCandidates : result.objective <= Objective(FleetMatrix, t))
          => \A t \in FleetCandidates : result.vehicles <= Len(t)

\* C17 as the code has it: the same, for an assignment whose vehicles cannot run
\* up a transit of one fixed cost between them (vehicles * horizon < FixedCost,
\* that is at most 208 vehicles).
C17_FewerVehiclesCheaperUpTo208 ==
  (pc = "priced") =>
     /\ \A t \in FleetCandidates :
          (result.vehicles < Len(t) /\ result.vehicles * horizon < FixedCost)
             => result.objective < Objective(FleetMatrix, t)
     /\ (AllPriced /\ \A t \in FleetCandidates : result.objective <= Objective(FleetMatrix, t))
          => \A t \in FleetCandidates : result.vehicles <= Len(t)

\* 208 vehicles with 480 minutes of travel each, still cheaper than 209 vehicles
\* that do not travel
C17_Witness ==
  /\ pc = "priced"
  /\ result.vehicles = 208
  /\ result.objective = 208 * (FixedCost + horizon)
  /\ \E t \in FleetCandidates :
       Len(t) = 209 /\ Objective(FleetMatrix, t) = 209 * FixedCost

\* every row of the file carries the cluster id that is asked for
OneClusterFile ==
  /\ HasColumn(csv_header, {"cluster_id"})
  /\ \A k \in DOMAIN csv_rows : csv_rows[k].cid = cluster_id

Shown(e) ==
  IF e = None THEN None
  ELSE [lat |-> e.lat, lon |-> e.lon, display_name |-> e.display_name, source |-> e.source]

\* C19: the cache is a map keyed by normalized address.  A put of an address
\* makes get return its lat, lon, display_name and source, a clear_by_address or
\* clear_by_addresses of an address makes get return None, either leaves the
\* entry of every other address as it was, and get returns the entry and changes
\* none; so get returns the last put that no deletion followed.
C19_CacheIsMap ==
  /\ \A k \in Keys : Cardinality(Select(cache_table, k)) <= 1
  /\ cache_op.name = "put" =>
        /\ Shown(get(cache_table, cache_op.key)) = cache_op.payload
        /\ \A k \in Keys \ {cache_op.key} : get(cache_table, k) = get(cache_op.before, k)
  /\ cache_op.name = "clear_by_address" =>
        /\ get(cache_table, cache_op.key) = None
        /\ \A k \in Keys \ {cache_op.key} : get(cache_table, k) = get(cache_op.before, k)
  /\ cache_op.name = "clear_by_addresses" =>
        \A k \in Keys :
           get(cache_table, k) = IF k \in Range(cache_op.keys) THEN None
                                 ELSE get(cache_op.before, k)
  /\ cache_op.name = "get" =>
        /\ cache_ret = get(cache_op.before, cache_op.key)
        /\ cache_table = cache_op.before

\* a put over an older entry with other values, next to the entry of another address
C19_Witness ==
  /\ cache_op.name = "put"
  /\ get(cache_op.before, cache_op.key) # None
  /\ Shown(get(cache_op.before, cache_op.key)) # cache_op.payload
  /\ Shown(get(cache_table, cache_op.key)) = cache_op.payload
  /\ \E k \in Keys \ {cache_op.key} : get(cache_table, k) # None

\* the entry of the row is in the state of the code
InState(r, code) == Upper(AddrOf(r.normalized_address).state) = Upper(code)

\* C20: clear_by_state(S) deletes exactly the entries whose address is in state S,
\* whatever the letter case of S, returns their number and leaves the entries of
\* every other state as they were.
C20_ClearByStateExact ==
  cache_op.name = "clear_by_state" =>
     /\ cache_table = {r \in cache_op.before : ~InState(r, cache_op.key)}
     /\ cache_ret = Cardinality({r \in cache_op.before : InState(r, cache_op.key)})

\* a component that is not empty, not of blanks only, and has no blank at either end
Trimmed(c) == c # <<>> /\ c[1] # " " /\ c[Len(c)] # " "

\* C21: normalize_address returns the stripped address, city, "state zip5" and
\* "USA" joined by ", " with every empty component left out: no component of the
\* result is empty or of blanks only, and none has a blank at either end.
C21_NormalizedComponentsTrimmed ==
  cache_op.name = "normalize_address" =>
     LET parts == SplitCommaSpace(cache_ret.text)
     IN  \A k \in DOMAIN parts : Trimmed(parts[k])

\* what the test expects is returned: an empty city is left out
C21_EmptyCityLeftOut ==
  (cache_op.name = "normalize_address" /\ Strip(cache_op.city) = <<>>
     /\ Strip(cache_op.address) # <<>> /\ Strip(cache_op.state) # <<>> /\ Strip(cache_op.zip5) # <<>>) =>
     cache_ret.text = Strip(cache_op.address) \o <<",", " ">> \o Strip(cache_op.state) \o <<" ">>
                        \o Strip(cache_op.zip5) \o <<",", " ", "U", "S", "A">>

\* the queries of the row that was settled last: only the city-state query had a result
OnlyCityState(l) ==
  /\ l.kind = "row"
  /\ l.asked # <<>>
  /\ l.asked[Len(l.asked)] = [label |-> "city-state", res |-> "hit"]
  /\ \A k \in 1..(Len(l.asked) - 1) : l.asked[k].res = "none"

\* the rows of the state of l that the run holds or has written
StateIsCurrent(l) == worker.s <= Len(worker.states) /\ worker.states[worker.s] = l.state

\* C23: a row whose only successful query is the city-state query is not among the
\* rows of geocoded.csv, is among the error rows, and nothing is stored in the
\* cache for its address.
C23_CoarseMatchIsFailure ==
  (worker.pc # "none" /\ OnlyCityState(worker.last)) =>
     LET l == worker.last
         f == geo_out[l.state]
     IN  /\ l.wrote = None
         /\ get(cache_table, KeyOf(l.fields)) = None
         /\ StateIsCurrent(l) =>
               /\ \A k \in DOMAIN worker.out_rows : worker.out_rows[k].id # l.id
               /\ \E k \in DOMAIN worker.error_rows : worker.error_rows[k].id = l.id
         /\ f.written =>
               /\ \A k \in DOMAIN f.geocoded : f.geocoded[k].id # l.id
               /\ \E k \in DOMAIN f.errors : f.errors[k].id = l.id

\* a coarse match whose state has been written
C23_Witness ==
  /\ worker.pc # "none"
  /\ OnlyCityState(worker.last)
  /\ worker.last.outcome = "coarse_skip"
  /\ geo_out[worker.last.state].written
  /\ Len(worker.last.asked) = 4

\* C24: for a row whose normalized address has a cache entry when the row is
\* processed, a result or a failure, the worker makes no geocode call and no
\* cache write.
C24_CachedRowNotGeocoded ==
  (worker.pc # "none" /\ worker.last.kind = "row" /\ worker.last.cached # None) =>
     /\ worker.last.asked = <<>>
     /\ worker.last.wrote = None

\* a row found in the cache as a failure
C24_Witness ==
  /\ worker.pc # "none"
  /\ worker.last.kind = "row"
  /\ worker.last.cached # None
  /\ worker.last.cached.lat = SqlNull
  /\ worker.last.outcome = "cached_failure"

\* C25: when run is over, on every path, the finished signal has been emitted
\* exactly once.
C25_FinishedEmittedOnce ==
  (worker.pc = "returned") => worker.finished = 1

\* the signal is emitted at most once, and only as the last action of run
C25_FinishedAtMostOnceAtEnd ==
  worker.pc # "none" =>
     /\ worker.finished <= 1
     /\ worker.finished = 1 => worker.pc = "returned"

\* C27: a failure entry is stored for an address only after every query built for
\* it was made and returned no result; a cancellation during the queries stores
\* none.
C27_FailureEntryOnlyAfterAllQueries ==
  (worker.pc # "none" /\ worker.last.kind = "row" /\ worker.last.wrote = FailurePayload) =>
     /\ ~worker.last.broke
     /\ Len(worker.last.asked) = Len(worker.last.strategies)
     /\ \A k \in DOMAIN worker.last.asked : worker.last.asked[k].res = "none"

\* C26: when set_workspace is called while the worker is running with rows it has
\* not begun, the cancellation takes effect during the run: the run ends without
\* having processed all rows.
C26_WorkspaceChangeCancelsRun ==
  (worker.pc = "returned" /\ ~worker.raised /\ worker.left >= 1) =>
     /\ worker.cancelled
     /\ worker.processed < GrandTotal(worker)

\* C28: from _start_geocoding until the finished signal of the worker is handled,
\* Geocode and Geocode All stay disabled, and no second run is started.
C28_OneRunAtATime ==
  /\ geo_ui.unhandled > 0 => (~geo_ui.geocode_btn /\ ~geo_ui.geocode_all_btn)
  /\ geo_ui.unhandled <= 1
  /\ geo_ui.orphans = 0

\* C22: under every interleaving of put, get, clear_by_address, clear_by_state and
\* clear by two threads, the table holds at most one row per address, a get
\* returns None or the values of one put, and a get made while no other call is in
\* progress returns the values of the last completed put of its address that no
\* completed deletion followed, None when there is none.
C22_ThreadSafe ==
  /\ \A k \in GeoKeys : Cardinality(Select(cache_table, k)) <= 1
  /\ cache_op.name = "get" =>
        /\ cache_ret # None => Shown(cache_ret) \in {HitPayload, FailurePayload}
        /\ cache_op.quiet => Shown(cache_ret) = cache_op.expect

\* C29: between the handlers set_workspace, on_state_selected and on_run of the
\* VRPTW tab, last_solution is None or a solution of the selected state in the
\* current workspace, and "View on Map" is enabled exactly when it is not None.
C29_LastSolutionIsCurrent ==
  run.pc = "idle" =>
     /\ last_solution # None => (workspace # "" /\ last_solution.state = state_cur)
     /\ map_btn <=> (last_solution # None)

\* C30: after a completed run for the selected state, _load_solution of that state
\* returns the rows of that run, and no solution when the run produced no rows.
C30_LoadReturnsLatestRun ==
  (op = "run" /\ run.pc = "idle" /\ results.kind \in {"routes", "no_feasible"}) =>
     LET ld == _load_solution(files, workspace, state_cur)
     IN  IF results.kind = "routes"
         THEN ld.kind = "solution" /\ ld.all_rows = results.rows
         ELSE ld = None

====
